---- MODULE Spec2Model ----
(***************************************************************************)
(* Model of the release and search tool handlers (pkg/github/releases.go,  *)
(* pkg/github/search.go) and of the response sanitizers                    *)
(* (pkg/github/cleaned_types.go, pkg/github/search.go).                    *)
(*                                                                         *)
(* Two specifications share the module:                                    *)
(*   Spec      - one invocation of a tool handler, from the untyped        *)
(*               request arguments to the returned (result, error) pair;   *)
(*   SpecClean - one call of a sanitizer on a source entity;               *)
(*   SpecAlias - one call of a sanitizer on a source entity in memory,     *)
(*               followed by writes to the source and to the output;       *)
(*   SpecConc  - several handler invocations running interleaved.          *)
(***************************************************************************)
EXTENDS Integers, Sequences, FiniteSets, TLC

VARIABLES
    tool,        \* the handler that was invoked
    args,        \* request.GetArguments(): key -> untyped value (partial map)
    pc,          \* position of the handler
    callArgs,    \* what the handler hands to the external API call
    clientGets,  \* number of getClient(ctx) calls
    apiCalls,    \* number of external API calls issued
    resp,        \* *github.Response returned by the external API call
    bodyClosed,  \* number of resp.Body.Close() calls
    bodyLog,     \* the reads and closes of resp.Body, in order
    result,      \* *mcp.CallToolResult returned by the handler
    err,         \* Go error returned by the handler
    cleanOp,     \* sanitizer under evaluation
    source,      \* source entity handed to the sanitizer
    cleaned,     \* value returned by the sanitizer
    cleanErr,    \* error returned by the sanitizer
    cleanPc,     \* position of the sanitizer call
    heap,        \* the objects in memory: address -> object
    srcRef,      \* address of the source entity of the sanitizer (0 is nil)
    outRef,      \* address of the entity the sanitizer returned (0 is nil)
    snapshot,    \* the values of source and output when the sanitizer returned
    touched,     \* the entities written to after the sanitizer returned
    aliasOp,     \* sanitizer run on the heap
    aliasPc,     \* position of the sanitizer run on the heap
    inv,         \* concurrent invocations: number -> the handler's locals
    fed          \* what getClient and the API call returned to each of them

handlerVars ==
    <<tool, args, pc, callArgs, clientGets, apiCalls, resp, bodyClosed, bodyLog,
      result, err>>
cleanVars == <<cleanOp, source, cleaned, cleanErr, cleanPc>>
aliasVars == <<heap, srcRef, outRef, snapshot, touched, aliasOp, aliasPc>>
vars == <<tool, args, pc, callArgs, clientGets, apiCalls, resp, bodyClosed,
          bodyLog, result, err, cleanOp, source, cleaned, cleanErr, cleanPc,
          heap, srcRef, outRef, snapshot, touched, aliasOp, aliasPc,
          inv, fed>>
concVars == <<inv, fed>>

---------------------------------------------------------------------------
(* Untyped and typed values.  Every value is a record of one shape:        *)
(*   kind  "absent" (key not in the map), "null" (JSON null / nil          *)
(*         interface), "string", "bool", "number" (a float64, equal to     *)
(*         n + 1/2 when frac, else n), "int" (an int or int64),            *)
(*         "nil" (nil pointer), "bytes" (a string kept as its bytes).      *)

Val(k, s, n, frac, b, bytes) ==
    [kind |-> k, s |-> s, n |-> n, frac |-> frac, b |-> b, bytes |-> bytes]

Absent == Val("absent", "", 0, FALSE, FALSE, <<>>)
Null == Val("null", "", 0, FALSE, FALSE, <<>>)
Nil == Val("nil", "", 0, FALSE, FALSE, <<>>)
Str(s) == Val("string", s, 0, FALSE, FALSE, <<>>)
Bool(b) == Val("bool", "", 0, FALSE, b, <<>>)
Num(n) == Val("number", "", n, FALSE, FALSE, <<>>)
NumHalf(n) == Val("number", "", n, TRUE, FALSE, <<>>)
IntV(n) == Val("int", "", n, FALSE, FALSE, <<>>)
Bytes(bs) == Val("bytes", "", 0, FALSE, FALSE, bs)


---------------------------------------------------------------------------
(* Errors of argument extraction.                                          *)

NoError == [type |-> "none", key |-> ""]
MissingParameter(k) == [type |-> "MissingParameter", key |-> k]
WrongType(k) == [type |-> "WrongType", key |-> k]
OutOfRange(k) == [type |-> "OutOfRange", key |-> k]

\* err.Error() of an extraction error
ErrorText(e) ==
    IF e.type = "MissingParameter" THEN "missing required parameter: " \o e.key
    ELSE IF e.type = "WrongType" THEN "wrong type for parameter: " \o e.key
    ELSE "parameter out of range: " \o e.key

\* request.GetArguments()[k]: a key that is not in the map reads as nil
Lookup(a, k) == IF k \in DOMAIN a THEN a[k] ELSE Null

\* the zero value of a Go type
ZeroOf(kind) ==
    IF kind = "string" THEN Str("")
    ELSE IF kind = "bool" THEN Bool(FALSE)
    ELSE Num(0)

Extracted(v) == [err |-> NoError, val |-> v]
Failed(e, kind) == [err |-> e, val |-> ZeroOf(kind)]

\* requiredParam[T](request, k)
requiredParam(a, k, kind) ==
    LET v == Lookup(a, k)
    IN  IF v.kind = "null" THEN Failed(MissingParameter(k), kind)
        ELSE IF v.kind # kind THEN Failed(WrongType(k), kind)
        ELSE Extracted(v)

\* OptionalParam[T](request, k)
OptionalParam(a, k, kind) ==
    LET v == Lookup(a, k)
    IN  IF v.kind = "null" THEN Extracted(ZeroOf(kind))
        ELSE IF v.kind # kind THEN Failed(WrongType(k), kind)
        ELSE Extracted(v)

DefaultPage == 1
DefaultPerPage == 30
MaxPerPage == 100

\* the page argument of OptionalPaginationParams: a positive integer
PageParam(a) ==
    LET v == Lookup(a, "page")
    IN  IF v.kind = "null" THEN Extracted(IntV(DefaultPage))
        ELSE IF v.kind # "number" \/ v.frac THEN Failed(WrongType("page"), "number")
        ELSE IF v.n < 1 THEN Failed(OutOfRange("page"), "number")
        ELSE Extracted(IntV(v.n))

\* the perPage argument of OptionalPaginationParams: an integer in 1..MaxPerPage
PerPageParam(a) ==
    LET v == Lookup(a, "perPage")
    IN  IF v.kind = "null" THEN Extracted(IntV(DefaultPerPage))
        ELSE IF v.kind # "number" \/ v.frac
        THEN Failed(WrongType("perPage"), "number")
        ELSE IF v.n < 1 \/ v.n > MaxPerPage
        THEN Failed(OutOfRange("perPage"), "number")
        ELSE Extracted(IntV(v.n))

\* OptionalPaginationParams(request): page first, then perPage
OptionalPaginationParams(a) ==
    LET page == PageParam(a)
        perPage == PerPageParam(a)
    IN  IF page.err # NoError
        THEN [err |-> page.err, page |-> IntV(0), perPage |-> IntV(0)]
        ELSE IF perPage.err # NoError
        THEN [err |-> perPage.err, page |-> IntV(0), perPage |-> IntV(0)]
        ELSE [err |-> NoError, page |-> page.val, perPage |-> perPage.val]

---------------------------------------------------------------------------
(* The handlers' parameters, in the order the handler extracts them.       *)

Req(k, kind) == [key |-> k, required |-> TRUE, kind |-> kind]
Opt(k, kind) == [key |-> k, required |-> FALSE, kind |-> kind]

ListReleasesParams == <<Req("owner", "string"), Req("repo", "string")>>

CreateReleaseParams ==
    <<Req("owner", "string"), Req("repo", "string"), Req("tag_name", "string"),
      Opt("target_commitish", "string"), Opt("name", "string"),
      Opt("body", "string"), Opt("draft", "bool"), Opt("prerelease", "bool"),
      Opt("discussion_category_name", "string"),
      Opt("generate_release_notes", "bool"), Opt("make_latest", "string")>>

GetLatestReleaseParams == <<Req("owner", "string"), Req("repo", "string")>>

GetReleaseByTagParams ==
    <<Req("owner", "string"), Req("repo", "string"), Req("tag", "string")>>

\* GetRelease taking release_id as a string
GetReleaseParamsStringId ==
    <<Req("owner", "string"), Req("repo", "string"), Req("release_id", "string")>>

GetReleaseParams ==
    <<Req("owner", "string"), Req("repo", "string"), Req("release_id", "number")>>

UpdateReleaseParams ==
    <<Req("owner", "string"), Req("repo", "string"), Req("release_id", "number"),
      Opt("tag_name", "string"), Opt("target_commitish", "string"),
      Opt("name", "string"), Opt("body", "string"), Opt("draft", "bool"),
      Opt("prerelease", "bool"), Opt("discussion_category_name", "string"),
      Opt("make_latest", "string")>>

DeleteReleaseParams ==
    <<Req("owner", "string"), Req("repo", "string"), Req("release_id", "number")>>

GenerateReleaseNotesParams ==
    <<Req("owner", "string"), Req("repo", "string"), Req("tag_name", "string"),
      Opt("target_commitish", "string"), Opt("previous_tag_name", "string")>>

SearchRepositoriesParams == <<Req("query", "string")>>

SearchCodeParams ==
    <<Req("q", "string"), Opt("sort", "string"), Opt("order", "string")>>

SearchUsersParams ==
    <<Req("q", "string"), Opt("sort", "string"), Opt("order", "string")>>

Tools ==
    {"ListReleases", "CreateRelease", "GetLatestRelease", "GetReleaseByTag",
     "GetRelease", "UpdateRelease", "DeleteRelease", "GenerateReleaseNotes",
     "SearchRepositories", "SearchCode", "SearchUsers"}

Params(t) ==
    CASE t = "ListReleases" -> ListReleasesParams
      [] t = "CreateRelease" -> CreateReleaseParams
      [] t = "GetLatestRelease" -> GetLatestReleaseParams
      [] t = "GetReleaseByTag" -> GetReleaseByTagParams
      [] t = "GetRelease" -> GetReleaseParams
      [] t = "UpdateRelease" -> UpdateReleaseParams
      [] t = "DeleteRelease" -> DeleteReleaseParams
      [] t = "GenerateReleaseNotes" -> GenerateReleaseNotesParams
      [] t = "SearchRepositories" -> SearchRepositoriesParams
      [] t = "SearchCode" -> SearchCodeParams
      [] t = "SearchUsers" -> SearchUsersParams

\* the handlers that call OptionalPaginationParams after their own parameters
HasPagination(t) ==
    t \in {"ListReleases", "SearchRepositories", "SearchCode", "SearchUsers"}

ParamKeys(t) == {Params(t)[i].key : i \in 1..Len(Params(t))}
RequiredKeys(t) ==
    {Params(t)[i].key : i \in {j \in 1..Len(Params(t)) : Params(t)[j].required}}

\* an extraction that takes the empty string of a required parameter for
\* a missing value
ExtractParamRejectsEmpty(a, p) ==
    IF p.required /\ Lookup(a, p.key) = Str("")
    THEN Failed(MissingParameter(p.key), p.kind)
    ELSE IF p.required THEN requiredParam(a, p.key, p.kind)
    ELSE OptionalParam(a, p.key, p.kind)

\* one extraction of the handler
ExtractParam(a, p) ==
    IF p.required THEN requiredParam(a, p.key, p.kind)
    ELSE OptionalParam(a, p.key, p.kind)

\* ExtractAll going on after a failed OptionalPaginationParams
ExtractAllIgnoresPagination(t, a) ==
    LET ps == Params(t)
        failing == {i \in 1..Len(ps) : ExtractParam(a, ps[i]).err # NoError}
        first == CHOOSE i \in failing : \A j \in failing : i <= j
        pg == IF HasPagination(t) THEN OptionalPaginationParams(a)
              ELSE [err |-> NoError, page |-> IntV(0), perPage |-> IntV(0)]
        vals == [k \in ParamKeys(t) |->
                    LET i == CHOOSE j \in 1..Len(ps) : ps[j].key = k
                    IN  ExtractParam(a, ps[i]).val]
    IN  IF failing # {}
        THEN [err |-> ExtractParam(a, ps[first]).err, vals |-> vals,
              page |-> IntV(0), perPage |-> IntV(0)]
        ELSE [err |-> NoError, vals |-> vals, page |-> pg.page,
              perPage |-> pg.perPage]

\* ExtractAll calling OptionalPaginationParams before the other extractions
ExtractAllPaginationFirst(t, a) ==
    LET ps == Params(t)
        failing == {i \in 1..Len(ps) : ExtractParam(a, ps[i]).err # NoError}
        first == CHOOSE i \in failing : \A j \in failing : i <= j
        pg == IF HasPagination(t) THEN OptionalPaginationParams(a)
              ELSE [err |-> NoError, page |-> IntV(0), perPage |-> IntV(0)]
        vals == [k \in ParamKeys(t) |->
                    LET i == CHOOSE j \in 1..Len(ps) : ps[j].key = k
                    IN  ExtractParam(a, ps[i]).val]
    IN  IF pg.err # NoError
        THEN [err |-> pg.err, vals |-> vals,
              page |-> IntV(0), perPage |-> IntV(0)]
        ELSE IF failing # {}
        THEN [err |-> ExtractParam(a, ps[first]).err, vals |-> vals,
              page |-> IntV(0), perPage |-> IntV(0)]
        ELSE [err |-> NoError, vals |-> vals, page |-> pg.page,
              perPage |-> pg.perPage]

\* The extractions of handler t on the arguments a, in order: the first
\* failure ends them; on success every parameter has its typed value.
ExtractAll(t, a) ==
    LET ps == Params(t)
        failing == {i \in 1..Len(ps) : ExtractParam(a, ps[i]).err # NoError}
        first == CHOOSE i \in failing : \A j \in failing : i <= j
        pg == IF HasPagination(t) THEN OptionalPaginationParams(a)
              ELSE [err |-> NoError, page |-> IntV(0), perPage |-> IntV(0)]
        vals == [k \in ParamKeys(t) |->
                    LET i == CHOOSE j \in 1..Len(ps) : ps[j].key = k
                    IN  ExtractParam(a, ps[i]).val]
    IN  IF failing # {}
        THEN [err |-> ExtractParam(a, ps[first]).err, vals |-> vals,
              page |-> IntV(0), perPage |-> IntV(0)]
        ELSE [err |-> pg.err, vals |-> vals, page |-> pg.page,
              perPage |-> pg.perPage]

---------------------------------------------------------------------------
(* What a handler hands to the external API call.                          *)

PatchFields ==
    {"tag_name", "target_commitish", "name", "body", "draft", "prerelease",
     "discussion_category_name", "generate_release_notes", "make_latest",
     "previous_tag_name"}

CallSlots ==
    {"owner", "repo", "id", "tag", "query", "sort", "order", "page", "perPage"}
        \union PatchFields

\* a slot the call does not have is Absent; an unset pointer field is Nil
NoCall == [s \in CallSlots |-> Absent]

\* int64(f) of a float64: the fraction is discarded, rounding toward zero
Int64Of(v) == IntV(IF v.frac /\ v.n < 0 THEN v.n + 1 ELSE v.n)

\* github.Ptr(x)
Ptr(v) == v

\* releaseRequest of CreateRelease: every field is set
CreateReleaseRequest(v) ==
    [f \in {"tag_name", "target_commitish", "name", "body", "draft",
            "prerelease", "discussion_category_name",
            "generate_release_notes", "make_latest"} |-> Ptr(v[f])]

\* UpdateRelease building its request the way CreateRelease does
UpdateReleaseRequestAllSet(a, v) ==
    [f \in {"tag_name", "target_commitish", "name", "body", "draft",
            "prerelease", "discussion_category_name", "make_latest"} |->
        Ptr(v[f])]

\* releaseRequest of UpdateRelease testing draft and prerelease against
\* their zero value, as it tests the strings
UpdateReleaseRequestTruthyFlags(a, v) ==
    [tag_name |-> IF v["tag_name"] # Str("") THEN Ptr(v["tag_name"]) ELSE Nil,
     target_commitish |->
        IF v["target_commitish"] # Str("") THEN Ptr(v["target_commitish"])
        ELSE Nil,
     name |-> IF v["name"] # Str("") THEN Ptr(v["name"]) ELSE Nil,
     body |-> IF v["body"] # Str("") THEN Ptr(v["body"]) ELSE Nil,
     draft |-> IF v["draft"] # Bool(FALSE) THEN Ptr(v["draft"]) ELSE Nil,
     prerelease |->
        IF v["prerelease"] # Bool(FALSE) THEN Ptr(v["prerelease"]) ELSE Nil,
     discussion_category_name |->
        IF v["discussion_category_name"] # Str("")
        THEN Ptr(v["discussion_category_name"]) ELSE Nil,
     make_latest |->
        IF v["make_latest"] # Str("") THEN Ptr(v["make_latest"]) ELSE Nil]

\* releaseRequest of UpdateRelease: a field is set only under its condition
UpdateReleaseRequest(a, v) ==
    [tag_name |-> IF v["tag_name"] # Str("") THEN Ptr(v["tag_name"]) ELSE Nil,
     target_commitish |->
        IF v["target_commitish"] # Str("") THEN Ptr(v["target_commitish"])
        ELSE Nil,
     name |-> IF v["name"] # Str("") THEN Ptr(v["name"]) ELSE Nil,
     body |-> IF v["body"] # Str("") THEN Ptr(v["body"]) ELSE Nil,
     draft |-> IF Lookup(a, "draft") # Null THEN Ptr(v["draft"]) ELSE Nil,
     prerelease |->
        IF Lookup(a, "prerelease") # Null THEN Ptr(v["prerelease"]) ELSE Nil,
     discussion_category_name |->
        IF v["discussion_category_name"] # Str("")
        THEN Ptr(v["discussion_category_name"]) ELSE Nil,
     make_latest |->
        IF v["make_latest"] # Str("") THEN Ptr(v["make_latest"]) ELSE Nil]

\* opts of GenerateReleaseNotes
GenerateNotesOptions(v) ==
    [tag_name |-> v["tag_name"],
     target_commitish |-> Ptr(v["target_commitish"]),
     previous_tag_name |-> Ptr(v["previous_tag_name"])]

\* ListOptions with the two fields exchanged
ListOptionsSwapped(x) == [page |-> x.perPage, perPage |-> x.page]

ListOptions(x) == [page |-> x.page, perPage |-> x.perPage]

\* The arguments of the external call of handler t, from the arguments a and
\* the outcome x of its extractions.
CallOf(t, a, x) ==
    LET v == x.vals
        ownerRepo == [owner |-> v["owner"], repo |-> v["repo"]]
    IN  CASE t = "ListReleases" -> ownerRepo @@ ListOptions(x) @@ NoCall
          [] t = "CreateRelease" -> ownerRepo @@ CreateReleaseRequest(v) @@ NoCall
          [] t = "GetLatestRelease" -> ownerRepo @@ NoCall
          [] t = "GetReleaseByTag" -> ownerRepo @@ [tag |-> v["tag"]] @@ NoCall
          [] t = "GetRelease" ->
                ownerRepo @@ [id |-> Int64Of(v["release_id"])] @@ NoCall
          [] t = "UpdateRelease" ->
                ownerRepo @@ [id |-> Int64Of(v["release_id"])]
                    @@ UpdateReleaseRequest(a, v) @@ NoCall
          [] t = "DeleteRelease" ->
                ownerRepo @@ [id |-> Int64Of(v["release_id"])] @@ NoCall
          [] t = "GenerateReleaseNotes" ->
                ownerRepo @@ GenerateNotesOptions(v) @@ NoCall
          [] t = "SearchRepositories" ->
                [query |-> v["query"]] @@ ListOptions(x) @@ NoCall
          [] t = "SearchCode" ->
                [query |-> v["q"], sort |-> v["sort"], order |-> v["order"]]
                    @@ ListOptions(x) @@ NoCall
          [] t = "SearchUsers" ->
                [query |-> Str("type:user " \o v["q"].s), sort |-> v["sort"],
                 order |-> v["order"]] @@ ListOptions(x) @@ NoCall

\* the text of the handler's "failed to ..." messages
OpText(t) ==
    CASE t = "ListReleases" -> "failed to list releases"
      [] t = "CreateRelease" -> "failed to create release"
      [] t = "GetLatestRelease" -> "failed to get latest release"
      [] t = "GetReleaseByTag" -> "failed to get release by tag"
      [] t = "GetRelease" -> "failed to get release"
      [] t = "UpdateRelease" -> "failed to update release"
      [] t = "DeleteRelease" -> "failed to delete release"
      [] t = "GenerateReleaseNotes" -> "failed to generate release notes"
      [] t = "SearchRepositories" -> "failed to search repositories"
      [] t = "SearchCode" -> "failed to search code"
      [] t = "SearchUsers" -> "failed to search users"

StatusOK == 200
StatusCreated == 201
StatusNoContent == 204
StatusNotFound == 404

\* every handler taking 200 for success
ExpectedStatusAlwaysOK(t) == StatusOK

\* the status the handler takes for success
ExpectedStatus(t) ==
    IF t = "CreateRelease" THEN StatusCreated
    ELSE IF t = "DeleteRelease" THEN StatusNoContent
    ELSE StatusOK

---------------------------------------------------------------------------
(* The requests of the model: every argument map that differs from the     *)
(* handler's plain request (each required key with a value of its kind, no *)
(* optional key) in at most MaxDeviations keys.                            *)

MaxDeviations == 2

\* the values a key is given besides its plain one
KeyValues(p) ==
    IF p.key = "page"
    THEN {Absent, Null, Str("2"), Num(0), Num(-1), Num(2), NumHalf(2)}
    ELSE IF p.key = "perPage"
    THEN {Absent, Null, Str("50"), Num(0), Num(100), Num(101), Num(150)}
    ELSE IF p.kind = "string" THEN {Absent, Null, Num(1), Str(""), Str(p.key)}
    ELSE IF p.kind = "bool" THEN {Absent, Null, Str("yes"), Bool(FALSE), Bool(TRUE)}
    ELSE {Absent, Null, Str("123"), Num(123), NumHalf(123), NumHalf(-2)}

PlainValue(p) ==
    IF ~p.required THEN Absent
    ELSE IF p.kind = "string" THEN Str(p.key)
    ELSE Num(123)

\* the keys handler t reads, pagination included
ArgKeys(t) ==
    IF HasPagination(t)
    THEN Params(t) \o <<Opt("page", "number"), Opt("perPage", "number")>>
    ELSE Params(t)

RECURSIVE ArgChoices(_, _, _)
ArgChoices(ks, i, budget) ==
    IF i > Len(ks) THEN {<<>>}
    ELSE {<<PlainValue(ks[i])>> \o r : r \in ArgChoices(ks, i + 1, budget)}
         \union
         (IF budget = 0 THEN {}
          ELSE UNION {{<<v>> \o r : r \in ArgChoices(ks, i + 1, budget - 1)} :
                        v \in KeyValues(ks[i]) \ {PlainValue(ks[i])}})

\* the argument map of a choice: an Absent key is not in the map
ArgMapOf(ks, c) ==
    [k \in {ks[i].key : i \in {j \in 1..Len(ks) : c[j] # Absent}} |->
        c[CHOOSE i \in 1..Len(ks) : ks[i].key = k]]

ArgMaps(t) == {ArgMapOf(ArgKeys(t), c) : c \in ArgChoices(ArgKeys(t), 1, MaxDeviations)}

\* a Go error value: nil, or an error with its message
NilErr == [nil |-> TRUE, msg |-> ""]
Errorf(msg) == [nil |-> FALSE, msg |-> msg]

---------------------------------------------------------------------------
(* Entities.  A pointer to a struct is a sequence: <<>> is the nil         *)
(* pointer, <<r>> points to the struct r.  A struct is a function from its *)
(* JSON field names to values; a pointer to a scalar is the scalar's value *)
(* or Nil.  A slice is a record that tells the nil slice from an empty one.*)

NilPtr == <<>>
PtrTo(r) == <<r>>
NilSlice == [nil |-> TRUE, elems |-> <<>>]
Slice(elems) == [nil |-> FALSE, elems |-> elems]

\* (*github.RepositoryContent).GetContent of go-github --------------------

\* the value of a character in the standard base64 alphabet, or -1
Sextet(c) ==
    IF c >= 65 /\ c <= 90 THEN c - 65
    ELSE IF c >= 97 /\ c <= 122 THEN c - 71
    ELSE IF c >= 48 /\ c <= 57 THEN c + 4
    ELSE IF c = 43 THEN 62
    ELSE IF c = 47 THEN 63
    ELSE -1

PadChar == 61
IsNewline(c) == c = 10 \/ c = 13

\* the bytes of the quantum s[1..4], of which the first n characters count
QuantumBytes(s, n) ==
    LET v1 == Sextet(s[1])
        v2 == Sextet(s[2])
        v3 == IF n >= 3 THEN Sextet(s[3]) ELSE 0
        v4 == IF n >= 4 THEN Sextet(s[4]) ELSE 0
        b1 == v1 * 4 + v2 \div 16
        b2 == (v2 % 16) * 16 + v3 \div 4
        b3 == (v3 % 4) * 64 + v4
    IN  SubSeq(<<b1, b2, b3>>, 1, n - 1)

\* base64.StdEncoding decoding of s (newlines removed) after the bytes acc:
\* padded quanta of four characters, padding only in the last one
RECURSIVE DecodeQuanta(_, _)
DecodeQuanta(s, acc) ==
    IF s = <<>> THEN [ok |-> TRUE, bytes |-> acc]
    ELSE IF Len(s) < 4 THEN [ok |-> FALSE, bytes |-> acc]
    ELSE IF \A i \in 1..4 : Sextet(s[i]) >= 0
    THEN DecodeQuanta(SubSeq(s, 5, Len(s)), acc \o QuantumBytes(s, 4))
    ELSE IF /\ Sextet(s[1]) >= 0 /\ Sextet(s[2]) >= 0 /\ Sextet(s[3]) >= 0
            /\ s[4] = PadChar /\ Len(s) = 4
    THEN [ok |-> TRUE, bytes |-> acc \o QuantumBytes(s, 3)]
    ELSE IF /\ Sextet(s[1]) >= 0 /\ Sextet(s[2]) >= 0
            /\ s[3] = PadChar /\ s[4] = PadChar /\ Len(s) = 4
    THEN [ok |-> TRUE, bytes |-> acc \o QuantumBytes(s, 2)]
    ELSE [ok |-> FALSE, bytes |-> acc]

\* base64.StdEncoding.DecodeString: \r and \n are ignored
Base64Decode(bs) ==
    DecodeQuanta(SelectSeq(bs, LAMBDA c : ~IsNewline(c)), <<>>)

\* content.GetContent(): the text of the content by its encoding tag
GetContent(c) ==
    LET encoding == IF c.encoding = Nil THEN "" ELSE c.encoding.s
    IN  IF encoding = "base64"
        THEN IF c.content = Nil THEN [ok |-> FALSE, text |-> <<>>]
             ELSE LET d == Base64Decode(c.content.bytes)
                  IN  [ok |-> d.ok, text |-> d.bytes]
        ELSE IF encoding = ""
        THEN IF c.content = Nil THEN [ok |-> TRUE, text |-> <<>>]
             ELSE [ok |-> TRUE, text |-> c.content.bytes]
        ELSE IF encoding = "none" THEN [ok |-> TRUE, text |-> <<>>]
        ELSE [ok |-> FALSE, text |-> <<>>]

\* cleaned_types.go ---------------------------------------------------------

CleanedRepositoryContentFields ==
    {"type", "target", "encoding", "size", "name", "path", "content", "sha"}
CleanedRepositoryFields ==
    {"id", "name", "full_name", "owner", "private", "fork", "html_url"}
CleanedUserFields == {"login", "id", "type"}

\* cleanRepositoryContent leaving the source's encoding tag on decoded text
cleanRepositoryContentKeepsTag(content) ==
    IF content = NilPtr THEN [val |-> NilPtr, err |-> NilErr]
    ELSE LET c == content[1]
             decoded == GetContent(c)
         IN  [val |-> PtrTo(
                [type |-> c.type, target |-> c.target, size |-> c.size,
                 name |-> c.name, path |-> c.path, sha |-> c.sha,
                 content |-> IF c.content = Nil THEN Nil
                             ELSE IF ~decoded.ok THEN c.content
                             ELSE Bytes(decoded.text),
                 encoding |-> IF c.content = Nil THEN Nil ELSE c.encoding]),
              err |-> NilErr]

\* cleanRepositoryContent returning the error of GetContent
cleanRepositoryContentSurfacesError(content) ==
    IF content = NilPtr THEN [val |-> NilPtr, err |-> NilErr]
    ELSE LET c == content[1]
             decoded == GetContent(c)
         IN  IF c.content # Nil /\ ~decoded.ok
             THEN [val |-> NilPtr, err |-> Errorf("failed to decode content")]
             ELSE [val |-> PtrTo(
                    [type |-> c.type, target |-> c.target, size |-> c.size,
                     name |-> c.name, path |-> c.path, sha |-> c.sha,
                     content |-> IF c.content = Nil THEN Nil
                                 ELSE Bytes(decoded.text),
                     encoding |-> IF c.content = Nil THEN Nil ELSE Str("text")]),
                   err |-> NilErr]

\* cleanRepositoryContent copying the download URL and, when decoding fails,
\* leaving out sha
cleanRepositoryContentLeaksURL(content) ==
    IF content = NilPtr THEN [val |-> NilPtr, err |-> NilErr]
    ELSE LET c == content[1]
             decoded == GetContent(c)
         IN  [val |-> PtrTo(
                [type |-> c.type, target |-> c.target, size |-> c.size,
                 name |-> c.name, path |-> c.path,
                 sha |-> IF c.content # Nil /\ ~decoded.ok THEN Nil ELSE c.sha,
                 download_url |-> c.download_url,
                 content |-> IF c.content = Nil THEN Nil
                             ELSE IF ~decoded.ok THEN c.content
                             ELSE Bytes(decoded.text),
                 encoding |-> IF c.content = Nil THEN Nil
                              ELSE IF ~decoded.ok THEN c.encoding
                              ELSE Str("text")]),
              err |-> NilErr]

\* cleanRepositoryContent copying the encoding tag of an entity without
\* content
cleanRepositoryContentTagsNoContent(content) ==
    IF content = NilPtr THEN [val |-> NilPtr, err |-> NilErr]
    ELSE LET c == content[1]
             decoded == GetContent(c)
         IN  [val |-> PtrTo(
                [type |-> c.type, target |-> c.target, size |-> c.size,
                 name |-> c.name, path |-> c.path, sha |-> c.sha,
                 content |-> IF c.content = Nil THEN Nil
                             ELSE IF ~decoded.ok THEN c.content
                             ELSE Bytes(decoded.text),
                 encoding |-> IF c.content = Nil THEN c.encoding
                              ELSE IF ~decoded.ok THEN c.encoding
                              ELSE Str("text")]),
              err |-> NilErr]

cleanRepositoryContent(content) ==
    IF content = NilPtr THEN [val |-> NilPtr, err |-> NilErr]
    ELSE LET c == content[1]
             decoded == GetContent(c)
         IN  [val |-> PtrTo(
                [type |-> c.type, target |-> c.target, size |-> c.size,
                 name |-> c.name, path |-> c.path, sha |-> c.sha,
                 content |-> IF c.content = Nil THEN Nil
                             ELSE IF ~decoded.ok THEN c.content
                             ELSE Bytes(decoded.text),
                 encoding |-> IF c.content = Nil THEN Nil
                              ELSE IF ~decoded.ok THEN c.encoding
                              ELSE Str("text")]),
              err |-> NilErr]

\* the loop of cleanRepositoryContentSlice from element i on
RECURSIVE CleanContentsFrom(_, _, _)
CleanContentsFrom(contents, i, acc) ==
    IF i > Len(contents) THEN [val |-> Slice(acc), err |-> NilErr]
    ELSE LET r == cleanRepositoryContent(contents[i])
         IN  IF r.err # NilErr THEN [val |-> NilSlice, err |-> r.err]
             ELSE CleanContentsFrom(contents, i + 1, Append(acc, r.val))

\* cleanRepositoryContentSlice failing the whole call on a nil element
cleanRepositoryContentSliceRejectsNil(contents) ==
    IF contents.nil THEN [val |-> NilSlice, err |-> NilErr]
    ELSE IF \E i \in 1..Len(contents.elems) : contents.elems[i] = NilPtr
    THEN [val |-> NilSlice, err |-> Errorf("nil content")]
    ELSE CleanContentsFrom(contents.elems, 1, <<>>)

\* cleanRepositoryContentSlice aborting on an element whose content cannot
\* be decoded
cleanRepositoryContentSliceAbortsOnDecode(contents) ==
    IF contents.nil THEN [val |-> NilSlice, err |-> NilErr]
    ELSE IF \E i \in 1..Len(contents.elems) :
               /\ contents.elems[i] # NilPtr
               /\ contents.elems[i][1].content # Nil
               /\ ~GetContent(contents.elems[i][1]).ok
    THEN [val |-> NilSlice, err |-> Errorf("failed to decode content")]
    ELSE CleanContentsFrom(contents.elems, 1, <<>>)

cleanRepositoryContentSlice(contents) ==
    IF contents.nil THEN [val |-> NilSlice, err |-> NilErr]
    ELSE CleanContentsFrom(contents.elems, 1, <<>>)

\* cleanRepositoryForSearch building an owner from a nil owner
cleanRepositoryForSearchEmptyOwner(repo) ==
    IF repo = NilPtr THEN NilPtr
    ELSE LET r == repo[1]
             o == IF r.owner # NilPtr THEN r.owner[1]
                  ELSE [login |-> Nil, id |-> Nil, type |-> Nil]
         IN  PtrTo([id |-> r.id, name |-> r.name, full_name |-> r.full_name,
                    private |-> r.private, fork |-> r.fork,
                    html_url |-> r.html_url,
                    owner |-> PtrTo([login |-> o.login, id |-> o.id,
                                     type |-> o.type])])

\* cleanRepositoryForSearch keeping the clone URL as well
cleanRepositoryForSearchKeepsCloneURL(repo) ==
    IF repo = NilPtr THEN NilPtr
    ELSE LET r == repo[1]
         IN  PtrTo([id |-> r.id, name |-> r.name, full_name |-> r.full_name,
                    private |-> r.private, fork |-> r.fork,
                    html_url |-> r.html_url, clone_url |-> r.clone_url,
                    owner |-> IF r.owner # NilPtr
                              THEN PtrTo([login |-> r.owner[1].login,
                                          id |-> r.owner[1].id,
                                          type |-> r.owner[1].type])
                              ELSE NilPtr])

cleanRepositoryForSearch(repo) ==
    IF repo = NilPtr THEN NilPtr
    ELSE LET r == repo[1]
         IN  PtrTo([id |-> r.id, name |-> r.name, full_name |-> r.full_name,
                    private |-> r.private, fork |-> r.fork,
                    html_url |-> r.html_url,
                    owner |-> IF r.owner # NilPtr
                              THEN PtrTo([login |-> r.owner[1].login,
                                          id |-> r.owner[1].id,
                                          type |-> r.owner[1].type])
                              ELSE NilPtr])

\* search.go ----------------------------------------------------------------

cleanTextMatch(textMatch) ==
    IF textMatch = NilPtr THEN NilPtr
    ELSE LET m == textMatch[1]
         IN  PtrTo([object_type |-> m.object_type, property |-> m.property,
                    fragment |-> m.fragment,
                    matches |-> IF ~m.matches.nil THEN m.matches ELSE NilSlice])

cleanCodeResult(res) ==
    IF res = NilPtr THEN NilPtr
    ELSE LET r == res[1]
         IN  PtrTo([name |-> r.name, path |-> r.path, sha |-> r.sha,
                    repository |-> IF r.repository # NilPtr
                                   THEN cleanRepositoryForSearch(r.repository)
                                   ELSE NilPtr,
                    text_matches |->
                        IF ~r.text_matches.nil
                        THEN Slice([i \in 1..Len(r.text_matches.elems) |->
                                      cleanTextMatch(r.text_matches.elems[i])])
                        ELSE NilSlice])

cleanCodeSearchResult(res) ==
    IF res = NilPtr THEN NilPtr
    ELSE LET r == res[1]
         IN  PtrTo([total_count |-> r.total_count,
                    incomplete_results |-> r.incomplete_results,
                    items |->
                        IF ~r.items.nil
                        THEN Slice([i \in 1..Len(r.items.elems) |->
                                      cleanCodeResult(r.items.elems[i])])
                        ELSE NilSlice])

---------------------------------------------------------------------------
(* The source entities of the model.                                       *)

MaxNilFields == 2
MaxContentLen == 4
MaxSliceLen == 2

FieldValue(f) ==
    IF f \in {"size", "id", "total_count"} THEN IntV(7)
    ELSE IF f \in {"private", "incomplete_results", "draft", "prerelease"}
         THEN Bool(TRUE)
    ELSE IF f = "fork" THEN Bool(FALSE)
    ELSE Str(f)

\* the struct with the fields of nilSet nil and the others set
WithNil(fields, nilSet) ==
    [f \in fields |-> IF f \in nilSet THEN Nil ELSE FieldValue(f)]

\* few fields nil, or all of them
NilSets(fields) ==
    {S \in SUBSET fields : Cardinality(S) <= MaxNilFields} \union {fields}

SeqsUpTo(S, n) == UNION {[1..k -> S] : k \in 0..n}
Slices(S) == {NilSlice} \union {Slice(q) : q \in SeqsUpTo(S, MaxSliceLen)}

\* the fields of github.RepositoryContent besides encoding and content
RepositoryContentFields ==
    {"type", "target", "size", "name", "path", "sha", "url", "git_url",
     "html_url", "download_url", "submodule_git_url"}

\* the characters Y, Q, =, ! and newline
ContentAlphabet == {89, 81, 61, 33, 10}
Contents == {Bytes(b) : b \in SeqsUpTo(ContentAlphabet, MaxContentLen)}
Encodings == {Nil, Str(""), Str("base64"), Str("none"), Str("utf-8")}

RepositoryContent(nilSet, e, c) ==
    PtrTo(WithNil(RepositoryContentFields, nilSet) @@ [encoding |-> e, content |-> c])

RepositoryContents ==
    {NilPtr}
    \union {RepositoryContent(S, e, c) :
                S \in {{}, RepositoryContentFields}, e \in Encodings,
                c \in {Nil} \union Contents}
    \union {RepositoryContent(S, e, c) :
                S \in NilSets(RepositoryContentFields), e \in Encodings,
                c \in {Nil, Bytes(<<89, 81, 61, 61>>), Bytes(<<33>>)}}

RepositoryContentSamples ==
    {NilPtr,
     RepositoryContent({}, Str("base64"), Bytes(<<89, 81, 61, 61>>)),
     RepositoryContent({}, Str("base64"), Bytes(<<33>>)),
     RepositoryContent({"target"}, Nil, Nil)}

\* fields of github.User and github.Repository
UserFields == {"login", "id", "type", "avatar_url", "html_url", "url"}
RepositoryFields ==
    {"id", "name", "full_name", "private", "fork", "html_url", "description",
     "url", "clone_url", "git_url", "ssh_url"}

Users == {NilPtr} \union {PtrTo(WithNil(UserFields, S)) : S \in NilSets(UserFields)}

Repository(nilSet, owner) ==
    PtrTo(WithNil(RepositoryFields, nilSet) @@ [owner |-> owner])

Repositories ==
    {NilPtr}
    \union {Repository(S, o) : S \in NilSets(RepositoryFields), o \in Users}

RepositorySamples ==
    {NilPtr, Repository({}, PtrTo(WithNil(UserFields, {}))),
     Repository({"html_url"}, NilPtr)}

\* github.Match, github.TextMatch
Matches ==
    {NilPtr, PtrTo([text |-> Str("text"), indices |-> <<0, 4>>]),
     PtrTo([text |-> Nil, indices |-> <<>>])}
TextMatchFields == {"object_url", "object_type", "property", "fragment"}

TextMatch(nilSet, ms) == PtrTo(WithNil(TextMatchFields, nilSet) @@ [matches |-> ms])

TextMatches ==
    {NilPtr}
    \union {TextMatch(S, ms) : S \in NilSets(TextMatchFields), ms \in Slices(Matches)}

TextMatchSamples ==
    {NilPtr, TextMatch({}, Slice(<<PtrTo([text |-> Str("text"), indices |-> <<0, 4>>])>>)),
     TextMatch({"property"}, NilSlice)}

\* github.CodeResult, github.CodeSearchResult
CodeResultFields == {"name", "path", "sha", "html_url"}

CodeResult(nilSet, repo, tms) ==
    PtrTo(WithNil(CodeResultFields, nilSet)
            @@ [repository |-> repo, text_matches |-> tms])

CodeResults ==
    {NilPtr}
    \union {CodeResult(S, r, tms) :
                S \in NilSets(CodeResultFields), r \in RepositorySamples,
                tms \in Slices(TextMatchSamples)}

CodeResultSamples ==
    {NilPtr,
     CodeResult({}, Repository({}, PtrTo(WithNil(UserFields, {}))),
                Slice(<<TextMatch({}, NilSlice), NilPtr>>)),
     CodeResult({"sha"}, NilPtr, NilSlice)}

CodeSearchResultFields == {"total_count", "incomplete_results"}

CodeSearchResults ==
    {NilPtr}
    \union {PtrTo(WithNil(CodeSearchResultFields, S) @@ [items |-> items]) :
                S \in SUBSET CodeSearchResultFields,
                items \in Slices(CodeResultSamples)}

Sanitizers ==
    {"cleanRepositoryContent", "cleanRepositoryContentSlice",
     "cleanRepositoryForSearch", "cleanCodeSearchResult", "cleanCodeResult",
     "cleanTextMatch"}

Sources(op) ==
    CASE op = "cleanRepositoryContent" -> RepositoryContents
      [] op = "cleanRepositoryContentSlice" -> Slices(RepositoryContentSamples)
      [] op = "cleanRepositoryForSearch" -> Repositories
      [] op = "cleanCodeSearchResult" -> CodeSearchResults
      [] op = "cleanCodeResult" -> CodeResults
      [] op = "cleanTextMatch" -> TextMatches

---------------------------------------------------------------------------
(* The (result, error) pair of a handler.                                  *)

\* A result is nil, an error result or a text result.  A text result that
\* carries a serialized entity holds the JSON document in json.
NilResult == [kind |-> "nil", text |-> "", json |-> <<>>]
NewToolResultError(text) == [kind |-> "error", text |-> text, json |-> <<>>]
NewToolResultText(text) == [kind |-> "text", text |-> text, json |-> <<>>]
NewToolResultJSON(doc) == [kind |-> "text", text |-> "json", json |-> <<doc>>]

NoEntity == NilPtr
NoResponse == [status |-> 0, readable |-> FALSE, body |-> "", entity |-> NoEntity]

Statuses == {StatusOK, StatusCreated, StatusNoContent, StatusNotFound}

\* go-github reports a response outside 200..299 as an error of the call
CheckResponse(status) == status \in 200..299

\* github.RepositoryRelease, github.RepositoryReleaseNotes
ReleaseFields ==
    {"id", "tag_name", "name", "body", "draft", "prerelease", "html_url"}
ReleaseSamples ==
    {PtrTo(WithNil(ReleaseFields, {})),
     PtrTo(WithNil(ReleaseFields, {"body", "draft"}))}
ReleaseNotesSamples ==
    {PtrTo([name |-> Str("name"), body |-> Str("body")]),
     PtrTo([name |-> Str(""), body |-> Str("")])}

\* github.RepositoriesSearchResult, github.UsersSearchResult
SearchResultFields == {"total_count", "incomplete_results"}
UserSamples ==
    {NilPtr, PtrTo(WithNil(UserFields, {})), PtrTo(WithNil(UserFields, UserFields))}
SearchResults(items) ==
    {PtrTo(WithNil(SearchResultFields, S) @@ [items |-> q]) :
        S \in {{}, SearchResultFields}, q \in Slices(items)}

\* the entities the external call of a tool can return with a response
Entities(t) ==
    CASE t = "ListReleases" -> Slices(ReleaseSamples)
      [] t = "DeleteRelease" -> {NoEntity}
      [] t = "GenerateReleaseNotes" -> ReleaseNotesSamples
      [] t = "SearchRepositories" -> SearchResults(RepositorySamples)
      [] t = "SearchCode" -> SearchResults(CodeResultSamples)
      [] t = "SearchUsers" -> SearchResults(UserSamples)
      [] OTHER -> ReleaseSamples

\* encoding/json ------------------------------------------------------------
\* A JSON object is a function from its keys to JSON values, a JSON array a
\* sequence, JSON null the value Null.  Every field of the go-github and
\* Cleaned* structs is tagged omitempty: a nil pointer and a slice of length
\* 0 leave no key.

StructFields == {"owner", "repository"}
SliceFields == {"items", "text_matches", "matches"}

IsEmptyValue(f, v) ==
    IF f \in StructFields THEN v = NilPtr
    ELSE IF f \in SliceFields THEN Len(v.elems) = 0
    ELSE IF f = "indices" THEN Len(v) = 0
    ELSE v = Nil

RECURSIVE MarshalStruct(_)
RECURSIVE MarshalPtr(_)

MarshalSlice(s) ==
    IF s.nil THEN Null
    ELSE [i \in 1..Len(s.elems) |-> MarshalPtr(s.elems[i])]

MarshalStruct(r) ==
    [f \in {g \in DOMAIN r : ~IsEmptyValue(g, r[g])} |->
        IF f \in StructFields THEN MarshalStruct(r[f][1])
        ELSE IF f \in SliceFields THEN MarshalSlice(r[f])
        ELSE r[f]]

MarshalPtr(p) == IF p = NilPtr THEN Null ELSE MarshalStruct(p[1])

\* search.go: the users of a search result as MinimalUser values; the
\* getters of go-github return the zero value for a nil receiver or field
GetField(p, f, zero) == IF p = NilPtr \/ p[1][f] = Nil THEN zero ELSE p[1][f]

\* MinimalUserOf taking the API URL as profile URL
MinimalUserOfAPIURL(user) ==
    [login |-> GetField(user, "login", Str("")),
     id |-> GetField(user, "id", IntV(0)),
     profile_url |-> GetField(user, "url", Str("")),
     avatar_url |-> GetField(user, "avatar_url", Str(""))]

MinimalUserOf(user) ==
    [login |-> GetField(user, "login", Str("")),
     id |-> GetField(user, "id", IntV(0)),
     profile_url |-> GetField(user, "html_url", Str("")),
     avatar_url |-> GetField(user, "avatar_url", Str(""))]

\* minimalUsers built from the users that are not nil only
MinimalSearchUsersResultOfSkipsNil(res) ==
    LET kept == SelectSeq(res[1].items.elems, LAMBDA u : u # NilPtr)
    IN  [total_count |-> GetField(res, "total_count", IntV(0)),
         incomplete_results |-> GetField(res, "incomplete_results", Bool(FALSE)),
         items |-> [i \in 1..Len(kept) |-> MinimalUserOf(kept[i])]]

MinimalSearchUsersResultOf(res) ==
    [total_count |-> GetField(res, "total_count", IntV(0)),
     incomplete_results |-> GetField(res, "incomplete_results", Bool(FALSE)),
     items |-> [i \in 1..Len(res[1].items.elems) |->
                  MinimalUserOf(res[1].items.elems[i])]]

\* MinimalUser: login is always written, the others are omitempty (left out
\* when zero); MinimalSearchUsersResult: every field is written
MarshalMinimalUser(mu) ==
    [f \in {"login"} \union {g \in {"id", "profile_url", "avatar_url"} :
                                mu[g] \notin {IntV(0), Str("")}} |-> mu[f]]

MarshalMinimalSearchUsersResult(r) ==
    [total_count |-> r.total_count, incomplete_results |-> r.incomplete_results,
     items |-> [i \in 1..Len(r.items) |-> MarshalMinimalUser(r.items[i])]]

\* what a handler serializes into its text result on the expected status
Payload(t, entity) ==
    CASE t = "ListReleases" -> MarshalSlice(entity)
      [] t = "SearchCode" -> MarshalPtr(cleanCodeSearchResult(entity))
      [] t = "SearchUsers" ->
            MarshalMinimalSearchUsersResult(MinimalSearchUsersResultOf(entity))
      [] OTHER -> MarshalPtr(entity)

\* the sanitizer variables of a handler run, and the handler variables of a
\* sanitizer run
CleanIdle ==
    /\ cleanOp = "none"
    /\ source = <<>>
    /\ cleaned = <<>>
    /\ cleanErr = NilErr
    /\ cleanPc = "idle"

NilRef == 0

\* the heap variables of a handler run and of a sanitizer run on values
AliasIdle ==
    /\ heap = <<>>
    /\ srcRef = NilRef
    /\ outRef = NilRef
    /\ snapshot = <<>>
    /\ touched = {}
    /\ aliasOp = "none"
    /\ aliasPc = "idle"

\* no concurrent invocations
ConcIdle ==
    /\ inv = <<>>
    /\ fed = <<>>

---------------------------------------------------------------------------
(* One invocation of a handler.                                            *)

Init ==
    /\ tool \in Tools
    /\ args \in ArgMaps(tool)
    /\ pc = "extract"
    /\ callArgs = NoCall
    /\ clientGets = 0
    /\ apiCalls = 0
    /\ resp = NoResponse
    /\ bodyClosed = 0
    /\ bodyLog = <<>>
    /\ result = NilResult
    /\ err = NilErr
    /\ CleanIdle
    /\ AliasIdle
    /\ ConcIdle

\* an extraction failure returned as a Go error instead of a tool error result
ExtractFailsPropagated ==
    /\ pc = "extract"
    /\ LET x == ExtractAll(tool, args)
       IN  /\ x.err # NoError
           /\ result' = NilResult
           /\ err' = Errorf(ErrorText(x.err))
    /\ pc' = "done"
    /\ UNCHANGED <<tool, args, callArgs, clientGets, apiCalls, resp, bodyClosed>>
    /\ UNCHANGED bodyLog
    /\ UNCHANGED cleanVars
    /\ UNCHANGED aliasVars
    /\ UNCHANGED concVars

\* The extractions of the handler up to the first failure, which is
\* returned as a tool error result; on success the request is built.
ExtractFails ==
    /\ pc = "extract"
    /\ LET x == ExtractAll(tool, args)
       IN  /\ x.err # NoError
           /\ result' = NewToolResultError(ErrorText(x.err))
           /\ err' = NilErr
    /\ pc' = "done"
    /\ UNCHANGED <<tool, args, callArgs, clientGets, apiCalls, resp, bodyClosed>>
    /\ UNCHANGED bodyLog
    /\ UNCHANGED cleanVars
    /\ UNCHANGED aliasVars
    /\ UNCHANGED concVars

\* the handler going on to the client although an extraction failed
ExtractSucceedsUnchecked ==
    /\ pc = "extract"
    /\ callArgs' = CallOf(tool, args, ExtractAll(tool, args))
    /\ pc' = "getClient"
    /\ UNCHANGED <<tool, args, clientGets, apiCalls, resp, bodyClosed, result, err>>
    /\ UNCHANGED bodyLog
    /\ UNCHANGED cleanVars
    /\ UNCHANGED aliasVars
    /\ UNCHANGED concVars

ExtractSucceeds ==
    /\ pc = "extract"
    /\ LET x == ExtractAll(tool, args)
       IN  /\ x.err = NoError
           /\ callArgs' = CallOf(tool, args, x)
    /\ pc' = "getClient"
    /\ UNCHANGED <<tool, args, clientGets, apiCalls, resp, bodyClosed, result, err>>
    /\ UNCHANGED bodyLog
    /\ UNCHANGED cleanVars
    /\ UNCHANGED aliasVars
    /\ UNCHANGED concVars

\* client, err := getClient(ctx)
\* getClient whose failure is recorded while the handler goes on to its call
GetClientFailureIgnored ==
    /\ pc = "getClient"
    /\ clientGets' = clientGets + 1
    /\ \E ok \in BOOLEAN :
        IF ok
        THEN /\ pc' = "call"
             /\ UNCHANGED <<result, err>>
        ELSE /\ pc' = "call"
             /\ result' = NilResult
             /\ err' = Errorf("failed to get GitHub client")
    /\ UNCHANGED <<tool, args, callArgs, apiCalls, resp, bodyClosed>>
    /\ UNCHANGED bodyLog
    /\ UNCHANGED cleanVars
    /\ UNCHANGED aliasVars
    /\ UNCHANGED concVars

GetClient ==
    /\ pc = "getClient"
    /\ clientGets' = clientGets + 1
    /\ \E ok \in BOOLEAN :
        IF ok
        THEN /\ pc' = "call"
             /\ UNCHANGED <<result, err>>
        ELSE /\ pc' = "done"
             /\ result' = NilResult
             /\ err' = Errorf("failed to get GitHub client")
    /\ UNCHANGED <<tool, args, callArgs, apiCalls, resp, bodyClosed>>
    /\ UNCHANGED bodyLog
    /\ UNCHANGED cleanVars
    /\ UNCHANGED aliasVars
    /\ UNCHANGED concVars

\* the external API call: it fails (no response, or a status that go-github
\* reports as an error), or it returns a response and the decoded entity
ApiCall ==
    /\ pc = "call"
    /\ apiCalls' = apiCalls + 1
    /\ \/ /\ \E st \in {NoResponse.status} \union Statuses : ~CheckResponse(st)
          /\ pc' = "done"
          /\ result' = NilResult
          /\ err' = Errorf(OpText(tool))
          /\ UNCHANGED resp
       \/ /\ \E st \in Statuses, readable \in BOOLEAN, entity \in Entities(tool) :
                /\ CheckResponse(st)
                /\ resp' = [status |-> st, readable |-> readable,
                            body |-> "body", entity |-> entity]
          /\ pc' = "response"
          /\ UNCHANGED <<result, err>>
    /\ UNCHANGED <<tool, args, callArgs, clientGets, bodyClosed>>
    /\ UNCHANGED bodyLog
    /\ UNCHANGED cleanVars
    /\ UNCHANGED aliasVars
    /\ UNCHANGED concVars

\* UnexpectedStatus returning an error result together with the error when
\* the body cannot be read
UnexpectedStatusReportsBoth ==
    /\ pc = "response"
    /\ resp.status # ExpectedStatus(tool)
    /\ bodyLog' = Append(bodyLog, "read")
    /\ IF resp.readable
       THEN /\ result' = NewToolResultError(OpText(tool) \o ": " \o resp.body)
            /\ err' = NilErr
       ELSE /\ result' = NewToolResultError(OpText(tool) \o ": ")
            /\ err' = Errorf("failed to read response body")
    /\ pc' = "return"
    /\ UNCHANGED <<tool, args, callArgs, clientGets, apiCalls, resp, bodyClosed>>
    /\ UNCHANGED cleanVars
    /\ UNCHANGED aliasVars
    /\ UNCHANGED concVars

\* the status is not the expected one: the body is read and reported
UnexpectedStatus ==
    /\ pc = "response"
    /\ resp.status # ExpectedStatus(tool)
    /\ bodyLog' = Append(bodyLog, "read")
    /\ IF resp.readable
       THEN /\ result' = NewToolResultError(OpText(tool) \o ": " \o resp.body)
            /\ err' = NilErr
       ELSE /\ result' = NilResult
            /\ err' = Errorf("failed to read response body")
    /\ pc' = "return"
    /\ UNCHANGED <<tool, args, callArgs, clientGets, apiCalls, resp, bodyClosed>>
    /\ UNCHANGED cleanVars
    /\ UNCHANGED aliasVars
    /\ UNCHANGED concVars

\* the expected status: the entity is serialized into a text result
\* Success returning without the deferred Close
SuccessLeavesBodyOpen ==
    /\ pc = "response"
    /\ resp.status = ExpectedStatus(tool)
    /\ result' = IF tool = "DeleteRelease"
                  THEN NewToolResultText("Release deleted successfully")
                  ELSE NewToolResultJSON(Payload(tool, resp.entity))
    /\ err' = NilErr
    /\ pc' = "done"
    /\ UNCHANGED <<tool, args, callArgs, clientGets, apiCalls, resp, bodyClosed,
                   bodyLog>>
    /\ UNCHANGED cleanVars
    /\ UNCHANGED aliasVars
    /\ UNCHANGED concVars

Success ==
    /\ pc = "response"
    /\ resp.status = ExpectedStatus(tool)
    /\ result' = IF tool = "DeleteRelease"
                  THEN NewToolResultText("Release deleted successfully")
                  ELSE NewToolResultJSON(Payload(tool, resp.entity))
    /\ err' = NilErr
    /\ pc' = "return"
    /\ UNCHANGED <<tool, args, callArgs, clientGets, apiCalls, resp, bodyClosed,
                   bodyLog>>
    /\ UNCHANGED cleanVars
    /\ UNCHANGED aliasVars
    /\ UNCHANGED concVars

\* defer func() { _ = resp.Body.Close() }(): runs when the handler returns
\* after the external call gave a response
DeferredClose ==
    /\ pc = "return"
    /\ bodyClosed' = bodyClosed + 1
    /\ bodyLog' = Append(bodyLog, "close")
    /\ pc' = "done"
    /\ UNCHANGED <<tool, args, callArgs, clientGets, apiCalls, resp, result, err>>
    /\ UNCHANGED cleanVars
    /\ UNCHANGED aliasVars
    /\ UNCHANGED concVars

Next ==
    \/ ExtractFails
    \/ ExtractSucceeds
    \/ GetClient
    \/ ApiCall
    \/ UnexpectedStatus
    \/ Success
    \/ DeferredClose

Spec == Init /\ [][Next]_vars

---------------------------------------------------------------------------
(* One call of a sanitizer.                                                *)

HandlerIdle ==
    /\ tool = "none"
    /\ args = <<>>
    /\ pc = "idle"
    /\ callArgs = NoCall
    /\ clientGets = 0
    /\ apiCalls = 0
    /\ resp = NoResponse
    /\ bodyClosed = 0
    /\ bodyLog = <<>>
    /\ result = NilResult
    /\ err = NilErr

InitClean ==
    /\ cleanOp \in Sanitizers
    /\ source \in Sources(cleanOp)
    /\ cleaned = NilPtr
    /\ cleanErr = NilErr
    /\ cleanPc = "call"
    /\ HandlerIdle
    /\ AliasIdle
    /\ ConcIdle

\* a sanitizer that returns a value and an error
ReturnsWithError(r) ==
    /\ cleaned' = r.val
    /\ cleanErr' = r.err
    /\ cleanPc' = "returned"
    /\ UNCHANGED <<cleanOp, source>>
    /\ UNCHANGED handlerVars
    /\ UNCHANGED aliasVars
    /\ UNCHANGED concVars

\* a sanitizer that returns a value only
Returns(v) ==
    /\ cleaned' = v
    /\ cleanPc' = "returned"
    /\ UNCHANGED <<cleanOp, source, cleanErr>>
    /\ UNCHANGED handlerVars
    /\ UNCHANGED aliasVars
    /\ UNCHANGED concVars

CleanRepositoryContent ==
    /\ cleanPc = "call" /\ cleanOp = "cleanRepositoryContent"
    /\ ReturnsWithError(cleanRepositoryContent(source))

CleanRepositoryContentSlice ==
    /\ cleanPc = "call" /\ cleanOp = "cleanRepositoryContentSlice"
    /\ ReturnsWithError(cleanRepositoryContentSlice(source))

CleanRepositoryForSearch ==
    /\ cleanPc = "call" /\ cleanOp = "cleanRepositoryForSearch"
    /\ Returns(cleanRepositoryForSearch(source))

CleanCodeSearchResult ==
    /\ cleanPc = "call" /\ cleanOp = "cleanCodeSearchResult"
    /\ Returns(cleanCodeSearchResult(source))

CleanCodeResult ==
    /\ cleanPc = "call" /\ cleanOp = "cleanCodeResult"
    /\ Returns(cleanCodeResult(source))

CleanTextMatch ==
    /\ cleanPc = "call" /\ cleanOp = "cleanTextMatch"
    /\ Returns(cleanTextMatch(source))

NextClean ==
    \/ CleanRepositoryContent
    \/ CleanRepositoryContentSlice
    \/ CleanRepositoryForSearch
    \/ CleanCodeSearchResult
    \/ CleanCodeResult
    \/ CleanTextMatch

SpecClean == InitClean /\ [][NextClean]_vars

---------------------------------------------------------------------------
(* One call of a sanitizer on entities in memory.  The heap maps an        *)
(* address to an object: the cell a pointer to a scalar points to, a       *)
(* struct whose fields hold addresses (NilRef for nil; a slice field holds *)
(* the address of its backing array), or the backing array of a slice of   *)
(* pointers.                                                               *)

Cell(v) == [kind |-> "cell", val |-> v, fields |-> <<>>, elems |-> <<>>]
Struct(fs) == [kind |-> "struct", val |-> Nil, fields |-> fs, elems |-> <<>>]
Array(es) == [kind |-> "array", val |-> Nil, fields |-> <<>>, elems |-> es]

\* the address of a newly allocated object
New(h) ==
    IF DOMAIN h = {} THEN 1
    ELSE (CHOOSE a \in DOMAIN h : \A b \in DOMAIN h : b <= a) + 1

\* *p for a pointer to a scalar
Deref(h, r) == IF r = NilRef THEN Nil ELSE h[r].val

\* the addresses an object holds
Refs(o) ==
    (IF o.kind = "struct" THEN {o.fields[f] : f \in DOMAIN o.fields}
     ELSE IF o.kind = "array" THEN {o.elems[i] : i \in DOMAIN o.elems}
     ELSE {}) \ {NilRef}

RECURSIVE ReachFrom(_, _, _)
ReachFrom(h, S, n) ==
    IF n = 0 THEN S
    ELSE ReachFrom(h, S \union UNION {Refs(h[a]) : a \in S}, n - 1)

\* the objects reachable from the entity at r, and what they hold
Reach(h, r) ==
    IF r = NilRef THEN {} ELSE ReachFrom(h, {r}, Cardinality(DOMAIN h))
Graph(h, r) == [a \in Reach(h, r) |-> h[a]]

\* search.go, cleaned_types.go on the heap -----------------------------------

cleanTextMatchOnHeap(h, textMatch) ==
    IF textMatch = NilRef THEN [heap |-> h, ref |-> NilRef]
    ELSE LET m == h[textMatch].fields
             c == New(h)
         IN  [heap |-> (c :> Struct([object_type |-> m.object_type,
                                     property |-> m.property,
                                     fragment |-> m.fragment,
                                     matches |-> IF m.matches # NilRef
                                                 THEN m.matches ELSE NilRef]))
                        @@ h,
              ref |-> c]

cleanRepositoryContentOnHeap(h, content) ==
    IF content = NilRef THEN [heap |-> h, ref |-> NilRef]
    ELSE LET m == h[content].fields
             c == New(h)
             decoded == GetContent([encoding |-> Deref(h, m.encoding),
                                    content |-> Deref(h, m.content)])
             copied == [f \in {"type", "target", "size", "name", "path", "sha"}
                            |-> m[f]]
         IN  IF m.content = NilRef
             THEN [heap |-> (c :> Struct(copied @@ [content |-> NilRef,
                                                    encoding |-> NilRef])) @@ h,
                   ref |-> c]
             ELSE IF ~decoded.ok
             THEN [heap |-> (c :> Struct(copied @@ [content |-> m.content,
                                                    encoding |-> m.encoding]))
                             @@ h,
                   ref |-> c]
             ELSE [heap |-> (c :> Struct(copied @@ [content |-> c + 1,
                                                    encoding |-> c + 2]))
                             @@ (c + 1 :> Cell(Bytes(decoded.text)))
                             @@ (c + 2 :> Cell(Str("text"))) @@ h,
                   ref |-> c]

cleanRepositoryForSearchOnHeap(h, repo) ==
    IF repo = NilRef THEN [heap |-> h, ref |-> NilRef]
    ELSE LET m == h[repo].fields
             c == New(h)
             copied == [f \in {"id", "name", "full_name", "private", "fork",
                               "html_url"} |-> m[f]]
         IN  IF m.owner # NilRef
             THEN [heap |-> (c :> Struct(copied @@ [owner |-> c + 1]))
                             @@ (c + 1 :> Struct(
                                   [f \in {"login", "id", "type"} |->
                                        h[m.owner].fields[f]]))
                             @@ h,
                   ref |-> c]
             ELSE [heap |-> (c :> Struct(copied @@ [owner |-> NilRef])) @@ h,
                   ref |-> c]

\* The source entities in memory -------------------------------------------

\* a struct at address base whose fields, in the given order, point to cells
\* of their own at the following addresses; the fields of nilSet are nil
StructAt(base, order, nilSet) ==
    LET set == {i \in 1..Len(order) : order[i] \notin nilSet}
    IN  (base :> Struct([f \in {order[i] : i \in 1..Len(order)} |->
                           IF f \in nilSet THEN NilRef
                           ELSE base + (CHOOSE i \in 1..Len(order) : order[i] = f)]))
        @@ [a \in {base + i : i \in set} |-> Cell(FieldValue(order[a - base]))]

WithField(h, a, f, r) == [h EXCEPT ![a].fields = (f :> r) @@ @]

TextMatchOrder == <<"object_url", "object_type", "property", "fragment">>
MatchOrder == <<"text">>
ContentOrder ==
    <<"type", "target", "size", "name", "path", "sha", "url", "git_url",
      "html_url", "download_url", "submodule_git_url">>
RepositoryOrder ==
    <<"id", "name", "full_name", "private", "fork", "html_url", "description",
      "url", "clone_url", "git_url", "ssh_url">>
UserOrder == <<"login", "id", "type", "avatar_url", "html_url", "url">>

\* a text match at address 1; n < 0 is the nil slice of matches, else the
\* array is at 6 and match i at 5 + 2i with its text at 6 + 2i
TextMatchInMemory(nilSet, n) ==
    IF n < 0 THEN WithField(StructAt(1, TextMatchOrder, nilSet), 1, "matches", NilRef)
    ELSE LET ms == [i \in 1..n |-> 5 + 2 * i]
             RECURSIVE Place(_)
             Place(i) == IF i = 0 THEN <<>>
                         ELSE StructAt(5 + 2 * i, MatchOrder, {}) @@ Place(i - 1)
         IN  WithField(StructAt(1, TextMatchOrder, nilSet), 1, "matches", 6)
                @@ (6 :> Array(ms)) @@ Place(n)

\* a content entity at address 1 with encoding at 13 and content at 14
ContentInMemory(nilSet, e, c) ==
    LET h == WithField(WithField(StructAt(1, ContentOrder, nilSet), 1, "encoding",
                                 IF e = Nil THEN NilRef ELSE 13),
                       1, "content", IF c = Nil THEN NilRef ELSE 14)
    IN  h @@ [a \in {13 : x \in {e} \ {Nil}} \union {14 : x \in {c} \ {Nil}} |->
                 IF a = 13 THEN Cell(e) ELSE Cell(c)]

\* a repository at address 1, its owner at 13
RepositoryInMemory(nilSet, hasOwner, ownerNilSet) ==
    IF hasOwner
    THEN WithField(StructAt(1, RepositoryOrder, nilSet), 1, "owner", 13)
            @@ StructAt(13, UserOrder, ownerNilSet)
    ELSE WithField(StructAt(1, RepositoryOrder, nilSet), 1, "owner", NilRef)

AliasSanitizers ==
    {"cleanTextMatch", "cleanRepositoryContent", "cleanRepositoryForSearch"}

NilSource == [heap |-> <<>>, ref |-> NilRef]

SourcesInMemory(op) ==
    {NilSource} \union
    CASE op = "cleanTextMatch" ->
            {[heap |-> TextMatchInMemory(S, n), ref |-> 1] :
                S \in SUBSET {"object_url", "object_type", "property", "fragment"},
                n \in (-1)..MaxSliceLen}
      [] op = "cleanRepositoryContent" ->
            {[heap |-> ContentInMemory(S, e, c), ref |-> 1] :
                S \in {{}, {"target", "sha"}},
                e \in {Nil, Str("base64")},
                c \in {Nil, Bytes(<<89, 81, 61, 61>>), Bytes(<<33>>)}}
      [] op = "cleanRepositoryForSearch" ->
            {[heap |-> RepositoryInMemory(S, o, T), ref |-> 1] :
                S \in {{}, {"html_url"}}, o \in BOOLEAN,
                T \in {{}, {"login"}}}

InitAlias ==
    /\ aliasOp \in AliasSanitizers
    /\ \E src \in SourcesInMemory(aliasOp) :
          /\ heap = src.heap
          /\ srcRef = src.ref
    /\ outRef = NilRef
    /\ snapshot = <<>>
    /\ touched = {}
    /\ aliasPc = "call"
    /\ HandlerIdle
    /\ CleanIdle
    /\ ConcIdle

\* the sanitizer returns r; the values of source and output are recorded
ReturnsOnHeap(r) ==
    /\ heap' = r.heap
    /\ outRef' = r.ref
    /\ snapshot' = [src |-> Graph(r.heap, srcRef), out |-> Graph(r.heap, r.ref)]
    /\ aliasPc' = "returned"
    /\ UNCHANGED <<srcRef, touched, aliasOp>>
    /\ UNCHANGED <<handlerVars, cleanVars, concVars>>

AliasCleanTextMatch ==
    /\ aliasPc = "call" /\ aliasOp = "cleanTextMatch"
    /\ ReturnsOnHeap(cleanTextMatchOnHeap(heap, srcRef))

AliasCleanRepositoryContent ==
    /\ aliasPc = "call" /\ aliasOp = "cleanRepositoryContent"
    /\ ReturnsOnHeap(cleanRepositoryContentOnHeap(heap, srcRef))

AliasCleanRepositoryForSearch ==
    /\ aliasPc = "call" /\ aliasOp = "cleanRepositoryForSearch"
    /\ ReturnsOnHeap(cleanRepositoryForSearchOnHeap(heap, srcRef))

\* the heaps after one write to the object at a: a new value in a cell, nil
\* in an element of an array, nil in a field of a struct
Writes(h, a) ==
    IF h[a].kind = "cell" THEN {[h EXCEPT ![a].val = Str("written")]}
    ELSE IF h[a].kind = "array"
    THEN {[h EXCEPT ![a].elems[i] = NilRef] : i \in DOMAIN h[a].elems}
    ELSE {[h EXCEPT ![a].fields[f] = NilRef] : f \in DOMAIN h[a].fields}

\* the holder of the entity at root writes once to an object it can reach
WriteVia(root, who) ==
    /\ who \notin touched
    /\ \E a \in Reach(heap, root) : \E h \in Writes(heap, a) :
          /\ h # heap
          /\ heap' = h
    /\ touched' = touched \union {who}
    /\ UNCHANGED <<srcRef, outRef, snapshot, aliasOp, aliasPc>>
    /\ UNCHANGED <<handlerVars, cleanVars, concVars>>

WriteSource ==
    /\ aliasPc = "returned"
    /\ WriteVia(srcRef, "source")

WriteOutput ==
    /\ aliasPc = "returned"
    /\ WriteVia(outRef, "output")

NextAlias ==
    \/ AliasCleanTextMatch
    \/ AliasCleanRepositoryContent
    \/ AliasCleanRepositoryForSearch
    \/ WriteSource
    \/ WriteOutput

SpecAlias == InitAlias /\ [][NextAlias]_vars

---------------------------------------------------------------------------
(* Several invocations of handlers, interleaved.  Every local variable of  *)
(* a handler lives in the invocation's own record; getClient and the       *)
(* external call hand each invocation its own return values.               *)

MaxInvocations == 2

\* the locals of a handler at its entry
Invocation(t, a) ==
    [tool |-> t, args |-> a, pc |-> "extract", callArgs |-> NoCall,
     clientGets |-> 0, apiCalls |-> 0, resp |-> NoResponse, bodyClosed |-> 0,
     bodyLog |-> <<>>, result |-> NilResult, err |-> NilErr]

\* what getClient or the external call returns: an error, or a response
NoInput == [ok |-> TRUE, resp |-> NoResponse]
Fails == [ok |-> FALSE, resp |-> NoResponse]
Responds(r) == [ok |-> TRUE, resp |-> r]

\* one step of a handler on its locals s, given what getClient or the
\* external call returns to it
StepWith(s, in) ==
    CASE s.pc = "extract" ->
            LET x == ExtractAll(s.tool, s.args)
            IN  IF x.err # NoError
                THEN [s EXCEPT !.result = NewToolResultError(ErrorText(x.err)),
                               !.pc = "done"]
                ELSE [s EXCEPT !.callArgs = CallOf(s.tool, s.args, x),
                               !.pc = "getClient"]
      [] s.pc = "getClient" ->
            IF in.ok
            THEN [s EXCEPT !.clientGets = @ + 1, !.pc = "call"]
            ELSE [s EXCEPT !.clientGets = @ + 1, !.pc = "done",
                           !.err = Errorf("failed to get GitHub client")]
      [] s.pc = "call" ->
            IF in.ok
            THEN [s EXCEPT !.apiCalls = @ + 1, !.resp = in.resp,
                           !.pc = "response"]
            ELSE [s EXCEPT !.apiCalls = @ + 1, !.pc = "done",
                           !.err = Errorf(OpText(s.tool))]
      [] s.pc = "response" ->
            IF s.resp.status # ExpectedStatus(s.tool)
            THEN IF s.resp.readable
                 THEN [s EXCEPT !.bodyLog = Append(@, "read"),
                                !.result = NewToolResultError(
                                    OpText(s.tool) \o ": " \o s.resp.body),
                                !.pc = "return"]
                 ELSE [s EXCEPT !.bodyLog = Append(@, "read"),
                                !.err = Errorf("failed to read response body"),
                                !.pc = "return"]
            ELSE [s EXCEPT !.result =
                              IF s.tool = "DeleteRelease"
                              THEN NewToolResultText("Release deleted successfully")
                              ELSE NewToolResultJSON(Payload(s.tool, s.resp.entity)),
                           !.pc = "return"]
      [] s.pc = "return" ->
            [s EXCEPT !.bodyClosed = @ + 1, !.bodyLog = Append(@, "close"),
                      !.pc = "done"]
      [] OTHER -> s

\* the handler run alone from the locals s, with getClient and the external
\* call returning ins in this order
RECURSIVE Alone(_, _)
Alone(s, ins) ==
    IF s.pc = "done" THEN s
    ELSE IF s.pc \in {"getClient", "call"}
    THEN IF ins = <<>> THEN s ELSE Alone(StepWith(s, Head(ins)), Tail(ins))
    ELSE Alone(StepWith(s, NoInput), ins)

\* the requests of the interleaved invocations: a plain and a failing one of
\* ListReleases and of SearchCode
ConcRequests ==
    {Invocation("ListReleases", [owner |-> Str("owner"), repo |-> Str("repo")]),
     Invocation("ListReleases", [repo |-> Str("repo"), page |-> Num(0)]),
     Invocation("SearchCode", [q |-> Str("q")]),
     Invocation("SearchCode", [q |-> Str("q"), perPage |-> Num(101)])}

\* the responses of the external call: the expected status with an entity,
\* another status with a body that can or cannot be read
ConcResponses(t) ==
    LET entity == IF t = "ListReleases"
                  THEN Slice(<<PtrTo(WithNil(ReleaseFields, {}))>>)
                  ELSE PtrTo(WithNil(SearchResultFields, {})
                             @@ [items |-> Slice(<<CodeResult({"sha"}, NilPtr, NilSlice)>>)])
    IN  {[status |-> StatusOK, readable |-> TRUE, body |-> "body",
          entity |-> entity]}
        \union {[status |-> StatusNoContent, readable |-> b, body |-> "body",
                  entity |-> entity] : b \in BOOLEAN}

InitConc ==
    /\ inv \in [1..MaxInvocations -> ConcRequests]
    /\ fed = [i \in 1..MaxInvocations |-> <<>>]
    /\ HandlerIdle
    /\ CleanIdle
    /\ AliasIdle

\* the response of a call kept in one variable of the package, which every
\* invocation then reads
FeedSharedResponse(i, in) ==
    /\ inv' = [j \in DOMAIN inv |->
                 IF j = i THEN StepWith(inv[i], in)
                 ELSE IF in.ok /\ inv[i].pc = "call"
                      THEN [inv[j] EXCEPT !.resp = in.resp]
                      ELSE inv[j]]
    /\ fed' = [fed EXCEPT ![i] = Append(@, in)]
    /\ UNCHANGED <<handlerVars, cleanVars, aliasVars>>

\* getClient or the external call returns in to invocation i, which keeps
\* it in its own locals
Feed(i, in) ==
    /\ inv' = [inv EXCEPT ![i] = StepWith(inv[i], in)]
    /\ fed' = [fed EXCEPT ![i] = Append(@, in)]
    /\ UNCHANGED <<handlerVars, cleanVars, aliasVars>>

\* invocation i takes a step that calls nothing outside the handler
ConcAdvance(i) ==
    /\ inv[i].pc \in {"extract", "response", "return"}
    /\ inv' = [inv EXCEPT ![i] = StepWith(inv[i], NoInput)]
    /\ UNCHANGED fed
    /\ UNCHANGED <<handlerVars, cleanVars, aliasVars>>

\* invocation i calls getClient
ConcGetClient(i) ==
    /\ inv[i].pc = "getClient"
    /\ \E in \in {NoInput, Fails} : Feed(i, in)

\* invocation i issues its external call
ConcApiCall(i) ==
    /\ inv[i].pc = "call"
    /\ \E in \in {Fails} \union {Responds(r) : r \in ConcResponses(inv[i].tool)} :
          Feed(i, in)

NextConc ==
    \E i \in 1..MaxInvocations :
        \/ ConcAdvance(i)
        \/ ConcGetClient(i)
        \/ ConcApiCall(i)

SpecConc == InitConc /\ [][NextConc]_vars

---------------------------------------------------------------------------
(* Properties of a handler invocation.                                     *)

\* some extraction of the handler fails on the request arguments
AnyExtractionFails ==
    \/ \E i \in 1..Len(Params(tool)) :
            ExtractParam(args, Params(tool)[i]).err # NoError
    \/ HasPagination(tool) /\ OptionalPaginationParams(args).err # NoError

\* C1: when an argument extraction of the handler fails (a required key is
\* missing or null, a required or optional argument has the wrong kind, or
\* pagination resolution fails), the client is never acquired and the
\* external API call is never issued; the handler returns a failure result.
ValidationPrecedesSideEffects ==
    AnyExtractionFails =>
        /\ clientGets = 0
        /\ apiCalls = 0
        /\ pc \in {"extract", "done"}
        /\ pc = "done" => result.kind = "error"

\* C1 witness: UpdateRelease has returned on a draft argument that is a string
ValidationFailedWitness ==
    /\ pc = "done"
    /\ tool = "UpdateRelease"
    /\ Lookup(args, "draft").kind = "string"
    /\ RequiredKeys(tool) \subseteq DOMAIN args
    /\ result.kind = "error"

\* the parameters the handler extracts before the key k all extract
EarlierExtract(k) ==
    \A i \in 1..Len(Params(tool)) :
        (\E j \in (i + 1)..Len(Params(tool)) : Params(tool)[j].key = k)
            => ExtractParam(args, Params(tool)[i]).err = NoError

\* C2 as stated: whenever a required key k is absent or null, the handler
\* returns the tool error "missing required parameter: k" and a nil error.
MissingParameterAlwaysNamed ==
    pc = "done" =>
        \A k \in RequiredKeys(tool) :
            Lookup(args, k) = Null =>
                /\ result = NewToolResultError("missing required parameter: " \o k)
                /\ err = NilErr

\* C2 amended: whenever a required key k is absent or null, the handler
\* returns a tool error result and a nil error, never a propagated error;
\* the message is "missing required parameter: k" when the parameters
\* extracted before k are all well-formed.
MissingParameterReported ==
    pc = "done" =>
        \A k \in RequiredKeys(tool) :
            Lookup(args, k) = Null =>
                /\ result.kind = "error"
                /\ err = NilErr
                /\ EarlierExtract(k) =>
                      result.text = "missing required parameter: " \o k

\* C2 witness: GetRelease has returned on a request with a null release_id
MissingParameterWitness ==
    /\ pc = "done"
    /\ tool = "GetRelease"
    /\ "release_id" \in DOMAIN args
    /\ args["release_id"] = Null
    /\ result = NewToolResultError("missing required parameter: release_id")

UpdateFields ==
    {"tag_name", "target_commitish", "name", "body", "draft", "prerelease",
     "discussion_category_name", "make_latest"}

\* C3: in UpdateRelease, an optional field whose key is absent from the
\* request arguments is unset (nil) in the request passed to EditRelease.
SparsePatch ==
    (tool = "UpdateRelease" /\ pc \notin {"extract"} /\ ~AnyExtractionFails) =>
        \A f \in UpdateFields : f \notin DOMAIN args => callArgs[f] = Nil

\* C3 witness: EditRelease was called with name set and every other field unset
SparsePatchWitness ==
    /\ tool = "UpdateRelease"
    /\ apiCalls = 1
    /\ DOMAIN args = {"owner", "repo", "release_id", "name"}
    /\ callArgs["name"] = Str("name")
    /\ \A f \in UpdateFields \ {"name"} : callArgs[f] = Nil

\* C4: in UpdateRelease, an optional field supplied with its zero value
\* ("" or false) is written into the request with that value.
SuppliedZeroIsWritten ==
    (tool = "UpdateRelease" /\ apiCalls > 0) =>
        \A f \in UpdateFields :
            Lookup(args, f) \in {Str(""), Bool(FALSE)} =>
                callArgs[f] = Lookup(args, f)

ReleaseIdTools == {"GetRelease", "UpdateRelease", "DeleteRelease"}

\* C5: a release_id that is an integral number reaches the external call as
\* that integer, and one that is not integral yields a WrongType failure
\* result and no external call.
ReleaseIdExactOrReject ==
    (tool \in ReleaseIdTools /\ Lookup(args, "release_id").kind = "number") =>
        LET v == Lookup(args, "release_id")
        IN  IF v.frac
            THEN /\ apiCalls = 0
                 /\ pc \in {"extract", "done"}
                 /\ pc = "done" =>
                        /\ result = NewToolResultError(ErrorText(WrongType("release_id")))
                        /\ err = NilErr
            ELSE apiCalls > 0 => callArgs["id"] = IntV(v.n)

---------------------------------------------------------------------------
(* Properties of a sanitizer call.                                         *)

Returned(op) == cleanPc = "returned" /\ cleanOp = op

\* the call was cleanRepositoryContent on an entity with content
ContentCleaned ==
    /\ Returned("cleanRepositoryContent")
    /\ source # NilPtr
    /\ source[1].content # Nil

\* C6: cleanRepositoryContent on an entity whose content is present and
\* decodes returns encoding "text" and the decoded string as content,
\* whatever the source's encoding tag.
DecodedContentIsText ==
    (ContentCleaned /\ GetContent(source[1]).ok) =>
        /\ cleaned # NilPtr
        /\ cleaned[1].encoding = Str("text")
        /\ cleaned[1].content = Bytes(GetContent(source[1]).text)

\* C6 witness: the base64 content "YQ==" was returned as the text "a"
DecodedContentWitness ==
    /\ ContentCleaned
    /\ source[1].encoding = Str("base64")
    /\ source[1].content = Bytes(<<89, 81, 61, 61>>)
    /\ cleaned[1].content = Bytes(<<97>>)
    /\ cleaned[1].encoding = Str("text")

\* C7: cleanRepositoryContent on an entity whose content is present and does
\* not decode returns a nil error and the source's own content and encoding.
DecodeFailureFallsBack ==
    (ContentCleaned /\ ~GetContent(source[1]).ok) =>
        /\ cleanErr = NilErr
        /\ cleaned # NilPtr
        /\ cleaned[1].content = source[1].content
        /\ cleaned[1].encoding = source[1].encoding

\* C7 witness: the content "YQ=" (wrong padding) came back as it was
DecodeFailureWitness ==
    /\ ContentCleaned
    /\ source[1].encoding = Str("base64")
    /\ source[1].content = Bytes(<<89, 81, 61>>)
    /\ cleaned[1].content = Bytes(<<89, 81, 61>>)
    /\ cleaned[1].encoding = Str("base64")
    /\ cleanErr = NilErr

PointerSanitizers == Sanitizers \ {"cleanRepositoryContentSlice"}

\* C8: every sanitizer returns null and no error on a null source, and a
\* null repository of a code result or null owner of a repository is null
\* in the output.
NullPropagation ==
    /\ (cleanPc = "returned" /\ cleanOp \in PointerSanitizers) =>
            (source = NilPtr => cleaned = NilPtr /\ cleanErr = NilErr)
    /\ Returned("cleanRepositoryContentSlice") =>
            (source.nil => cleaned = NilSlice /\ cleanErr = NilErr)
    /\ (Returned("cleanCodeResult") /\ source # NilPtr) =>
            /\ cleaned # NilPtr
            /\ source[1].repository = NilPtr => cleaned[1].repository = NilPtr
            /\ (source[1].repository # NilPtr
                    /\ source[1].repository[1].owner = NilPtr) =>
                  /\ cleaned[1].repository # NilPtr
                  /\ cleaned[1].repository[1].owner = NilPtr
    /\ (Returned("cleanRepositoryForSearch") /\ source # NilPtr) =>
            /\ cleaned # NilPtr
            /\ source[1].owner = NilPtr => cleaned[1].owner = NilPtr

\* C8 witness: a repository without owner was cleaned to one without owner
NullPropagationWitness ==
    /\ Returned("cleanRepositoryForSearch")
    /\ source # NilPtr
    /\ source[1].owner = NilPtr
    /\ cleaned # NilPtr
    /\ cleaned[1].owner = NilPtr
    /\ cleaned[1].name = Str("name")

\* the output slice out is the input slice in, cleaned element by element
ElementWise(in, out, clean(_)) ==
    /\ ~out.nil
    /\ Len(out.elems) = Len(in.elems)
    /\ \A i \in 1..Len(in.elems) :
        /\ out.elems[i] = clean(in.elems[i])
        /\ in.elems[i] = NilPtr => out.elems[i] = NilPtr

CleanContentValue(c) == cleanRepositoryContent(c).val

\* C9: the sanitizers of collections (content slice, code results, text
\* matches) return a collection of the same length whose i-th element is
\* the sanitized i-th input element; a null element stays null at its
\* position and does not fail the call.
CollectionsElementWise ==
    /\ (Returned("cleanRepositoryContentSlice") /\ ~source.nil) =>
            /\ cleanErr = NilErr
            /\ ElementWise(source, cleaned, CleanContentValue)
    /\ (Returned("cleanCodeSearchResult") /\ source # NilPtr) =>
            (~source[1].items.nil =>
                ElementWise(source[1].items, cleaned[1].items, cleanCodeResult))
    /\ (Returned("cleanCodeResult") /\ source # NilPtr) =>
            (~source[1].text_matches.nil =>
                ElementWise(source[1].text_matches, cleaned[1].text_matches,
                            cleanTextMatch))

\* C9 witness: a content slice of a file and a null was cleaned to the
\* cleaned file and a null
CollectionsWitness ==
    /\ Returned("cleanRepositoryContentSlice")
    /\ ~source.nil
    /\ Len(source.elems) = 2
    /\ source.elems[1] # NilPtr
    /\ source.elems[2] = NilPtr
    /\ ~cleaned.nil
    /\ Len(cleaned.elems) = 2
    /\ cleaned.elems[1] # NilPtr
    /\ cleaned.elems[2] = NilPtr

URLFieldNames ==
    {"url", "html_url", "clone_url", "git_url", "ssh_url", "avatar_url",
     "download_url", "submodule_git_url", "object_url"}
RepositoryAllowList ==
    {"id", "name", "full_name", "owner", "private", "fork", "html_url"}
OwnerAllowList == {"login", "id", "type"}

\* C10: the output of cleanRepositoryForSearch has no field outside
\* {id, name, full_name, owner, private, fork, html_url}, its owner has no
\* field outside {login, id, type}, every field it has equals the source's,
\* and html_url is its only URL field.
RepositoryAllowListed ==
    (Returned("cleanRepositoryForSearch") /\ source # NilPtr) =>
        LET src == source[1]
            out == cleaned[1]
        IN  /\ DOMAIN out \subseteq RepositoryAllowList
            /\ \A f \in DOMAIN out \ {"owner"} : out[f] = src[f]
            /\ DOMAIN out \intersect URLFieldNames \subseteq {"html_url"}
            /\ out.owner # NilPtr =>
                /\ src.owner # NilPtr
                /\ DOMAIN out.owner[1] \subseteq OwnerAllowList
                /\ \A f \in DOMAIN out.owner[1] : out.owner[1][f] = src.owner[1][f]
                /\ DOMAIN out.owner[1] \intersect URLFieldNames = {}

\* C10 witness: a repository with clone URL, API URL and an owner with avatar
\* URL was cleaned, and the output has its html_url and its owner's login
RepositoryAllowListWitness ==
    /\ Returned("cleanRepositoryForSearch")
    /\ source # NilPtr
    /\ source[1].clone_url = Str("clone_url")
    /\ source[1].url = Str("url")
    /\ source[1].owner # NilPtr
    /\ source[1].owner[1].avatar_url = Str("avatar_url")
    /\ cleaned[1].html_url = Str("html_url")
    /\ cleaned[1].owner # NilPtr
    /\ cleaned[1].owner[1].login = Str("login")

---------------------------------------------------------------------------
(* Properties of the payload of a handler.                                 *)

\* the handler returned a text result that serializes an entity
PayloadReturned(t) ==
    /\ tool = t
    /\ pc = "done"
    /\ result.kind = "text"
    /\ result.json # <<>>

ReducedRepositoryKeys ==
    {"id", "name", "full_name", "description", "private", "fork", "html_url",
     "owner"}

\* a serialized repository is null or the reduced projection
IsReducedRepository(j) ==
    \/ j = Null
    \/ /\ DOMAIN j \subseteq ReducedRepositoryKeys
       /\ DOMAIN j \intersect URLFieldNames \subseteq {"html_url"}
       /\ "owner" \in DOMAIN j => DOMAIN j.owner \subseteq OwnerAllowList

ItemsOf(doc) == IF "items" \in DOMAIN doc THEN doc.items ELSE <<>>

\* C11: in the success payload of SearchRepositories every item, and in the
\* success payload of SearchCode the repository of every item, is the reduced
\* projection of a repository (id, name, full_name, description, private,
\* fork, html_url, owner as login/id/type) with no other URL field.
SearchPayloadRepositoriesReduced ==
    /\ PayloadReturned("SearchRepositories") =>
          \A i \in DOMAIN ItemsOf(result.json[1]) :
              IsReducedRepository(ItemsOf(result.json[1])[i])
    /\ PayloadReturned("SearchCode") =>
          \A i \in DOMAIN ItemsOf(result.json[1]) :
              LET item == ItemsOf(result.json[1])[i]
              IN  (item # Null /\ "repository" \in DOMAIN item) =>
                      IsReducedRepository(item.repository)

MinimalUserKeys == {"login", "id", "profile_url", "avatar_url"}

\* the field of github.User a key of MinimalUser is taken from
RawUserField(k) == IF k = "profile_url" THEN "html_url" ELSE k

\* C13: every item of the SearchUsers payload has no key besides login, id,
\* profile_url and avatar_url; login is the raw user's login ("" when it has
\* none), and id, profile_url, avatar_url, when present, are the raw user's
\* id, html_url and avatar_url.
MinimalUsersOnly ==
    PayloadReturned("SearchUsers") =>
        LET items == result.json[1].items
            users == resp.entity[1].items.elems
        IN  \A i \in DOMAIN items :
                /\ i \in DOMAIN users
                /\ DOMAIN items[i] \subseteq MinimalUserKeys
                /\ "login" \in DOMAIN items[i]
                /\ items[i].login =
                      IF users[i] # NilPtr /\ users[i][1].login # Nil
                      THEN users[i][1].login ELSE Str("")
                /\ \A k \in DOMAIN items[i] \ {"login"} :
                      /\ users[i] # NilPtr
                      /\ items[i][k] = users[i][1][RawUserField(k)]

\* C13 witness: a raw user with type, API URL and HTML URL was returned and
\* its item has the HTML URL as profile_url
MinimalUsersWitness ==
    /\ PayloadReturned("SearchUsers")
    /\ \E i \in DOMAIN result.json[1].items :
          /\ resp.entity[1].items.elems[i] # NilPtr
          /\ resp.entity[1].items.elems[i][1].type = Str("type")
          /\ resp.entity[1].items.elems[i][1].url = Str("url")
          /\ result.json[1].items[i].profile_url = Str("html_url")
          /\ result.json[1].items[i].avatar_url = Str("avatar_url")

\* the handler returned after a failure at the external call boundary: the
\* client was asked for, and the call was not made, failed, or answered with
\* a status that is not the expected one
UpstreamFailed ==
    /\ pc = "done"
    /\ clientGets > 0
    /\ apiCalls = 0 \/ resp.status # ExpectedStatus(tool)

\* C14: every failure at the external call boundary is returned as a nil
\* result with a non-nil "failed to ..." error, never as a tool error result
\* with a nil error.
UpstreamFailurePropagated ==
    UpstreamFailed =>
        /\ result = NilResult
        /\ ~err.nil
        /\ err.msg \in {"failed to get GitHub client", OpText(tool),
                        "failed to read response body"}

ReleaseTools ==
    {"ListReleases", "CreateRelease", "GetLatestRelease", "GetReleaseByTag",
     "GetRelease", "UpdateRelease", "DeleteRelease", "GenerateReleaseNotes"}

\* the external call returned no error and the status of success
OnSuccessPath ==
    /\ pc = "done"
    /\ apiCalls = 1
    /\ resp.status = (IF tool = "CreateRelease" THEN 201
                      ELSE IF tool = "DeleteRelease" THEN 204 ELSE 200)

\* doc is the JSON object of the struct p points to: its non-nil fields with
\* their values
Serializes(doc, p) ==
    /\ p # NilPtr
    /\ DOMAIN doc = {f \in DOMAIN p[1] : p[1][f] # Nil}
    /\ \A f \in DOMAIN doc : doc[f] = p[1][f]

\* the text result of a release operation for the entity the call returned
IsSuccessResult ==
    /\ result.kind = "text"
    /\ IF tool = "DeleteRelease"
       THEN result.text = "Release deleted successfully" /\ result.json = <<>>
       ELSE /\ result.json # <<>>
            /\ IF tool = "ListReleases"
               THEN IF resp.entity.nil THEN result.json[1] = Null
                    ELSE /\ DOMAIN result.json[1] = DOMAIN resp.entity.elems
                         /\ \A i \in DOMAIN resp.entity.elems :
                               Serializes(result.json[1][i], resp.entity.elems[i])
               ELSE Serializes(result.json[1], resp.entity)

Resolved ==
    /\ HasPagination(tool)
    /\ pc # "extract"
    /\ ExtractAll(tool, args).err = NoError

\* C16: an absent page resolves to 1 and an absent perPage to 30 (resolution
\* of an argument map without both succeeds with page 1 and perPage 30), and
\* the external list/search call is made with the resolved values.
PaginationDefaults ==
    HasPagination(tool) =>
        /\ "page" \notin DOMAIN args => PageParam(args) = Extracted(IntV(1))
        /\ "perPage" \notin DOMAIN args => PerPageParam(args) = Extracted(IntV(30))
        /\ {"page", "perPage"} \intersect DOMAIN args = {} =>
              OptionalPaginationParams(args) =
                  [err |-> NoError, page |-> IntV(1), perPage |-> IntV(30)]
        /\ Resolved =>
              /\ "page" \notin DOMAIN args => callArgs.page = IntV(1)
              /\ "perPage" \notin DOMAIN args => callArgs.perPage = IntV(30)
              /\ callArgs.page = OptionalPaginationParams(args).page
              /\ callArgs.perPage = OptionalPaginationParams(args).perPage

\* C16 witness: SearchRepositories made its call with page 1 and perPage 30
\* for a request without page and perPage
PaginationDefaultsWitness ==
    /\ tool = "SearchRepositories"
    /\ {"page", "perPage"} \intersect DOMAIN args = {}
    /\ apiCalls = 1
    /\ callArgs.page = IntV(1)
    /\ callArgs.perPage = IntV(30)

ListStyleTools ==
    {"ListReleases", "SearchRepositories", "SearchCode", "SearchUsers"}

\* the request has a page that is zero or negative / a perPage above 100
PageOutOfRange ==
    LET v == Lookup(args, "page") IN v.kind = "number" /\ ~v.frac /\ v.n <= 0
PerPageOutOfRange ==
    LET v == Lookup(args, "perPage") IN v.kind = "number" /\ ~v.frac /\ v.n > 100

\* C17: in a list-style handler a page that is 0 or negative and a perPage
\* above 100 fail their resolution with OutOfRange and fail the resolution
\* of the pair; the handler makes no client request and no external call
\* and returns an error result with a nil error, which is the OutOfRange
\* message whenever the pagination is the first failing extraction.
OutOfRangeRejected ==
    (tool \in ListStyleTools /\ (PageOutOfRange \/ PerPageOutOfRange)) =>
        /\ PageOutOfRange => PageParam(args).err = OutOfRange("page")
        /\ PerPageOutOfRange => PerPageParam(args).err = OutOfRange("perPage")
        /\ OptionalPaginationParams(args).err # NoError
        /\ PageParam(args).err.type \in {"none", "OutOfRange"} =>
              OptionalPaginationParams(args).err.type = "OutOfRange"
        /\ clientGets = 0
        /\ apiCalls = 0
        /\ pc \in {"extract", "done"}
        /\ pc = "done" =>
              /\ result.kind = "error"
              /\ err = NilErr
              /\ (\A i \in 1..Len(Params(tool)) :
                      ExtractParam(args, Params(tool)[i]).err = NoError) =>
                    result = NewToolResultError(
                                ErrorText(OptionalPaginationParams(args).err))

\* C17 witness: SearchCode returned the OutOfRange failure of perPage 101
\* for a request that is valid otherwise, without a call
OutOfRangeWitness ==
    /\ tool = "SearchCode"
    /\ pc = "done"
    /\ Lookup(args, "perPage") = Num(101)
    /\ result = NewToolResultError("parameter out of range: perPage")
    /\ apiCalls = 0

\* the kind a required parameter is declared with: release_id is a number,
\* owner, repo, tag_name, tag, query and q are strings
DeclaredKind(k) == IF k = "release_id" THEN "number" ELSE "string"

\* the required parameters of the handler whose value is present with a
\* kind other than the declared one
WrongKindKeys ==
    {k \in RequiredKeys(tool) :
        Lookup(args, k).kind \notin {"null", DeclaredKind(k)}}

\* no required parameter listed before k fails
FirstFailure(k) ==
    \A i \in 1..Len(Params(tool)) :
        ExtractParam(args, Params(tool)[i]).err # NoError =>
            \E j \in 1..i : Params(tool)[j].key = k

\* C18: a required parameter that is present with a kind other than its
\* declared one is extracted as WrongType; the handler does not go on with
\* a converted value (no client request, no call), and it returns an error
\* result that is not the MissingParameter of that parameter and is its
\* WrongType message when no earlier extraction failed.
WrongKindRejected ==
    \A k \in WrongKindKeys :
        /\ requiredParam(args, k, DeclaredKind(k)).err = WrongType(k)
        /\ \E i \in 1..Len(Params(tool)) :
              /\ Params(tool)[i].key = k
              /\ ExtractParam(args, Params(tool)[i]).err = WrongType(k)
        /\ clientGets = 0
        /\ apiCalls = 0
        /\ pc \in {"extract", "done"}
        /\ pc = "done" =>
              /\ result.kind = "error"
              /\ err = NilErr
              /\ result # NewToolResultError(ErrorText(MissingParameter(k)))
              /\ FirstFailure(k) =>
                    result = NewToolResultError(ErrorText(WrongType(k)))

\* C18 witness: GetRelease returned the WrongType failure of a release_id
\* given as the string "123"
WrongKindWitness ==
    /\ tool = "GetRelease"
    /\ pc = "done"
    /\ Lookup(args, "release_id") = Str("123")
    /\ result = NewToolResultError("wrong type for parameter: release_id")
    /\ clientGets = 0

\* the required string parameters given as the empty string
EmptyStringKeys ==
    {k \in RequiredKeys(tool) :
        DeclaredKind(k) = "string" /\ Lookup(args, k) = Str("")}

\* the arguments without the key k
Without(a, k) == [j \in DOMAIN a \ {k} |-> a[j]]

\* C19: the empty string given for a required string parameter is extracted
\* as "" without MissingParameter, while the same request without the key,
\* or with null for it, is MissingParameter; the handler never reports the
\* parameter as missing or mistyped, and when no other extraction fails it
\* goes on to the client with "".
EmptyStringAccepted ==
    \A k \in EmptyStringKeys :
        /\ requiredParam(args, k, "string") = Extracted(Str(""))
        /\ requiredParam(Without(args, k), k, "string").err = MissingParameter(k)
        /\ requiredParam([args EXCEPT ![k] = Null], k, "string").err =
              MissingParameter(k)
        /\ ExtractAll(tool, args).err.key # k
        /\ pc = "done" =>
              result \notin {NewToolResultError(ErrorText(MissingParameter(k))),
                             NewToolResultError(ErrorText(WrongType(k)))}
        /\ (pc # "extract" /\ ExtractAll(tool, args).err = NoError) =>
              /\ pc = "getClient" \/ clientGets = 1
              /\ k \in {"owner", "repo", "tag", "tag_name", "query"} =>
                    callArgs[k] = Str("")

\* C19 witness: CreateRelease made its call with the empty tag_name of the
\* request
EmptyStringWitness ==
    /\ tool = "CreateRelease"
    /\ Lookup(args, "tag_name") = Str("")
    /\ apiCalls = 1
    /\ callArgs.tag_name = Str("")

\* C23: in UpdateRelease, draft and prerelease are set in the request passed
\* to EditRelease exactly when the argument is present and not null, and
\* then to the supplied value, false included; an absent or null argument
\* leaves the field unset.
BooleanFlagsByPresence ==
    (tool = "UpdateRelease" /\ apiCalls > 0) =>
        \A f \in {"draft", "prerelease"} :
            IF f \in DOMAIN args /\ args[f] # Null
            THEN callArgs[f] = args[f] /\ callArgs[f] \in {Bool(TRUE), Bool(FALSE)}
            ELSE callArgs[f] = Nil

\* C23 witness: EditRelease was called with draft false and prerelease unset
\* for a request that supplies draft false and prerelease null
BooleanFlagsWitness ==
    /\ tool = "UpdateRelease"
    /\ apiCalls = 1
    /\ "draft" \in DOMAIN args /\ args["draft"] = Bool(FALSE)
    /\ "prerelease" \in DOMAIN args /\ args["prerelease"] = Null
    /\ callArgs["draft"] = Bool(FALSE)
    /\ callArgs["prerelease"] = Nil

\* C24: a handler checks its required parameters in the order of their
\* declaration, then its optional parameters, then the pagination, and the
\* error result it returns is the one message of the first check that
\* fails; when a check fails the handler requests no client.
FailFastOrder ==
    LET ps == Params(tool)
        order == SelectSeq(ps, LAMBDA p : p.required)
                 \o SelectSeq(ps, LAMBDA p : ~p.required)
        checks == [i \in 1..Len(order) |-> ExtractParam(args, order[i]).err]
                  \o (IF HasPagination(tool)
                      THEN <<OptionalPaginationParams(args).err>> ELSE <<>>)
        failing == {i \in 1..Len(checks) : checks[i] # NoError}
        first == CHOOSE i \in failing : \A j \in failing : i <= j
    IN  /\ failing # {} => pc \in {"extract", "done"} /\ clientGets = 0
        /\ failing # {} /\ pc = "done" =>
              /\ result = NewToolResultError(ErrorText(checks[first]))
              /\ err = NilErr
        /\ failing = {} => ~(pc = "done" /\ clientGets = 0)

\* C24 witness: ListReleases returned the missing owner for a request
\* without owner whose page is out of range as well
FailFastOrderWitness ==
    /\ tool = "ListReleases"
    /\ pc = "done"
    /\ "owner" \notin DOMAIN args
    /\ OptionalPaginationParams(args).err # NoError
    /\ result = NewToolResultError(ErrorText(MissingParameter("owner")))
    /\ err = NilErr

\* C25: a handler requests the client at most once and issues the external
\* call at most once, and only after the client was obtained; when getClient
\* fails the handler returns the nil result with the error "failed to get
\* GitHub client" and issues no call.
ClientThenCallAtMostOnce ==
    /\ clientGets \in {0, 1}
    /\ apiCalls \in {0, 1}
    /\ apiCalls = 1 =>
          clientGets = 1 /\ err # Errorf("failed to get GitHub client")
    /\ pc = "done" /\ clientGets = 1 /\ apiCalls = 0 =>
          result = NilResult /\ err = Errorf("failed to get GitHub client")
    /\ err = Errorf("failed to get GitHub client") =>
          pc = "done" /\ result = NilResult /\ apiCalls = 0 /\ clientGets = 1

\* C25 witness: a handler returned after getClient failed
ClientFailedWitness ==
    /\ pc = "done"
    /\ clientGets = 1
    /\ apiCalls = 0
    /\ result = NilResult
    /\ err = Errorf("failed to get GitHub client")

UsersMappedOneToOne ==
    PayloadReturned("SearchUsers") =>
        LET items == result.json[1].items
            users == resp.entity[1].items.elems
            Raw(i, f, zero) ==
                IF users[i] # NilPtr /\ users[i][1][f] # Nil
                THEN users[i][1][f] ELSE zero
            Item(i, k, zero) ==
                IF k \in DOMAIN items[i] THEN items[i][k] ELSE zero
        IN  /\ items # Null
            /\ DOMAIN items = 1..Len(users)
            /\ users = <<>> => items = <<>>
            /\ \A i \in 1..Len(users) :
                  /\ items[i] # Null
                  /\ "login" \in DOMAIN items[i]
                  /\ items[i].login = Raw(i, "login", Str(""))
                  /\ Item(i, "id", IntV(0)) = Raw(i, "id", IntV(0))
                  /\ Item(i, "profile_url", Str("")) = Raw(i, "html_url", Str(""))
                  /\ Item(i, "avatar_url", Str("")) = Raw(i, "avatar_url", Str(""))

\* C28 witness: SearchUsers returned two items for a nil user followed by a
\* user with a login, the first with the empty login and nothing else
UsersMappedWitness ==
    /\ PayloadReturned("SearchUsers")
    /\ Len(resp.entity[1].items.elems) = 2
    /\ resp.entity[1].items.elems[1] = NilPtr
    /\ resp.entity[1].items.elems[2] # NilPtr
    /\ resp.entity[1].items.elems[2][1].login = Str("login")
    /\ Len(result.json[1].items) = 2
    /\ result.json[1].items[1] = [login |-> Str("")]
    /\ result.json[1].items[2].login = Str("login")

---------------------------------------------------------------------------
(* Further properties of a sanitizer call.                                 *)

RetainedContentFields == {"type", "target", "size", "name", "path", "sha"}

\* C12: for every non-nil content entity, the output of
\* cleanRepositoryContent has type, target, size, name, path and sha equal
\* to the source's and no URL field, whether the content decoded, failed to
\* decode or was absent.
RetainedFieldsCopied ==
    (Returned("cleanRepositoryContent") /\ source # NilPtr) =>
        /\ cleaned # NilPtr
        /\ \A f \in RetainedContentFields : cleaned[1][f] = source[1][f]
        /\ DOMAIN cleaned[1] \intersect URLFieldNames = {}

\* C12 witness: an entity with all its URLs set and content that does not
\* decode was cleaned, and the output has the source's sha and path
RetainedFieldsWitness ==
    /\ Returned("cleanRepositoryContent")
    /\ source # NilPtr
    /\ source[1].content # Nil
    /\ ~GetContent(source[1]).ok
    /\ \A f \in {"url", "git_url", "html_url", "download_url"} :
          source[1][f] = Str(f)
    /\ cleaned[1].sha = Str("sha")
    /\ cleaned[1].path = Str("path")

\* C22: a sanitizer call never returns an error, whatever its input: nil
\* elements, absent nested fields and content that cannot be decoded leave
\* the error of cleanRepositoryContent and of cleanRepositoryContentSlice
\* nil, and the search sanitizers return no error at all.
SanitizationNeverFails ==
    cleanPc = "returned" =>
        /\ cleanErr = NilErr
        /\ cleanOp = "cleanRepositoryContentSlice" =>
              cleaned.nil = source.nil
        /\ cleanOp = "cleanRepositoryContentSlice" /\ ~source.nil =>
              \A i \in 1..Len(source.elems) :
                  cleanRepositoryContent(source.elems[i]).err = NilErr

\* C22 witness: cleanRepositoryContentSlice returned without error for a
\* slice with a nil element and an element whose content cannot be decoded
SanitizationNeverFailsWitness ==
    /\ cleanPc = "returned"
    /\ cleanOp = "cleanRepositoryContentSlice"
    /\ ~source.nil
    /\ \E i \in 1..Len(source.elems) : source.elems[i] = NilPtr
    /\ \E i \in 1..Len(source.elems) :
          /\ source.elems[i] # NilPtr
          /\ source.elems[i][1].content # Nil
          /\ ~GetContent(source.elems[i][1]).ok
    /\ cleanErr = NilErr
    /\ Len(cleaned.elems) = Len(source.elems)

\* C29: for a source entity without content, cleanRepositoryContent leaves
\* content and encoding of its output unset, whatever encoding tag the
\* source carries; the output has an encoding exactly when it has content.
NoContentNoEncoding ==
    cleanPc = "returned" /\ cleanOp = "cleanRepositoryContent"
                         /\ source # NilPtr =>
        /\ cleaned # NilPtr
        /\ source[1].content = Nil =>
              cleaned[1].content = Nil /\ cleaned[1].encoding = Nil
        /\ cleaned[1].encoding # Nil <=> cleaned[1].content # Nil

\* C29 witness: cleanRepositoryContent returned for an entity that carries
\* the tag base64 and no content
NoContentNoEncodingWitness ==
    /\ cleanPc = "returned" /\ cleanOp = "cleanRepositoryContent"
    /\ source # NilPtr
    /\ source[1].content = Nil
    /\ source[1].encoding = Str("base64")
    /\ cleaned[1].content = Nil /\ cleaned[1].encoding = Nil

---------------------------------------------------------------------------
(* Properties of a sanitizer call on entities in memory.                   *)

\* C20: after a sanitizer returned, no object reachable from its output is
\* an object reachable from its source; a write through the source leaves
\* the output as it was returned, and a write through the output leaves the
\* source as it was.
OutputsFresh ==
    aliasPc = "returned" =>
        /\ Reach(heap, outRef) \intersect Reach(heap, srcRef) = {}
        /\ touched = {"source"} => Graph(heap, outRef) = snapshot.out
        /\ touched = {"output"} => Graph(heap, srcRef) = snapshot.src

---------------------------------------------------------------------------
(* Properties of interleaved invocations.                                  *)

====
